---------------------------- MODULE Spec2Model ----------------------------
(***************************************************************************)
(* LP management of SCIP (src/src/scip/lp.c): columns, rows, the doubly    *)
(* linked coefficient matrix, the actual LP and the LP stored in the LP    *)
(* solver, lpFlush() and the primal/dual solve drivers; the bound          *)
(* tightening of linear constraints (cons_linear.c) and the constraint     *)
(* arrays of a constraint handler (cons.c).                                *)
(*                                                                         *)
(* Conventions.  Positions (lppos, lpipos, linkpos, lpifirstchgcol, ...)   *)
(* are 0-based as in the C code, -1 is the "not there" sentinel; TLA+      *)
(* sequences are 1-based, so array slot p is element p+1.  Reals are       *)
(* modelled by integers; the tolerance predicates of set.c compare them    *)
(* exactly.  An array of the C code is a sequence holding the slots below  *)
(* its count (ncols = Len(lp.cols), nlpicols = Len(lp.lpicols), ...):      *)
(* slots at or beyond the count are never read by the code.  assert()s     *)
(* are preconditions, not code: they are not executed.                     *)
(*                                                                         *)
(* Every C function is an operator from a heap h to a heap.  h.rc is the   *)
(* RETCODE: an operator applied to a heap with h.rc # "OKAY" returns it    *)
(* unchanged, which is what CHECK_OKAY( ) does to the rest of a function.  *)
(***************************************************************************)
EXTENDS Integers, Sequences, FiniteSets, TLC

VARIABLES col, row, lp, lpi, rc, log, op, nops, cons, hdlr

vars == <<col, row, lp, lpi, rc, log, op, nops, cons, hdlr>>

(* ------------------------------ bounds -------------------------------- *)

NumCols == 2

NumRows == 2

MaxOps == 4

MaxLocks == 1

\* the number of variables a linear constraint is made of
NumVars == 2

ColIds == 1..NumCols

RowIds == 1..NumRows

\* the value a new coefficient is added with
AddVals == {1}

\* the values an existing coefficient is changed to; 0 deletes it
ChgVals == {0, 2}

\* lower and upper bounds of variables, left and right hand sides of rows
LbVals == {0, 1}

UbVals == {3, 4}

\* objective values the LP solver may report
ObjVals == {5}

(* --------------------------- program values --------------------------- *)

\* set->infinity: values of this size or more are treated as infinite
SetInfinity == 1000

\* SCIPlpiInfinity(lp->lpi): the LP solver's infinity value
LpiInfinity == 2000

\* SCIP_INVALID: marks a floating point value as not computed
SCIP_INVALID == 9999

LhsVals == {-SetInfinity, 0}

RhsVals == {7, SetInfinity}

\* raw termination signals of the LP solver, asked for by SCIPlpiIsOptimal(),
\* SCIPlpiIsPrimalInfeasible(), ...; "other" is a signal none of them knows
Signals == {"optimal", "infeasible", "unbounded", "objlim", "iterlim", "timelim", "other"}

(* ------------------------- tolerance predicates ----------------------- *)

SCIPsetIsZero(v) == v = 0

SCIPsetIsEQ(a, b) == a = b

SCIPsetIsInfinity(v) == v >= SetInfinity

Min(a, b) == IF a <= b THEN a ELSE b

Abs(a) == IF a >= 0 THEN a ELSE -a

\* the sum of two Real (double) values: a value of the size of set->infinity
\* absorbs an addend of the size of a bound or of a coefficient
RealAdd(a, b) ==
    IF Abs(a) >= SetInfinity /\ Abs(b) < SetInfinity THEN a
    ELSE IF Abs(b) >= SetInfinity /\ Abs(a) < SetInfinity THEN b
    ELSE a + b

(* ------------------------------ the heap ------------------------------ *)

Heap == [col |-> col, row |-> row, lp |-> lp, lpi |-> lpi, rc |-> "OKAY", log |-> <<>>]

Ok(h) == h.rc = "OKAY"

Fail(h, code) == [h EXCEPT !.rc = code]

ncols(h) == Len(h.lp.cols)

nrows(h) == Len(h.lp.rows)

nlpicols(h) == Len(h.lp.lpicols)

nlpirows(h) == Len(h.lp.lpirows)

\* the sequence s without its last element
Front(s) == SubSeq(s, 1, Len(s) - 1)

\* the positions 1..Len(keys) in the order a stable sort by key puts them in
RECURSIVE InsertByKey(_, _, _)
InsertByKey(keys, perm, p) ==
    IF perm = <<>> THEN <<p>>
    ELSE IF keys[perm[Len(perm)]] <= keys[p] THEN Append(perm, p)
    ELSE Append(InsertByKey(keys, Front(perm), p), perm[Len(perm)])

RECURSIVE SortPermUpTo(_, _)
SortPermUpTo(keys, n) ==
    IF n = 0 THEN <<>> ELSE InsertByKey(keys, SortPermUpTo(keys, n - 1), n)

SortPerm(keys) == SortPermUpTo(keys, Len(keys))

\* binary search for searchidx in keys[minpos..maxpos] (0-based), -1 if it fails
RECURSIVE BinSearch(_, _, _, _)
BinSearch(keys, searchidx, minpos, maxpos) ==
    IF minpos > maxpos THEN -1
    ELSE LET actpos == (minpos + maxpos) \div 2
             actidx == keys[actpos + 1]
         IN  IF searchidx = actidx THEN actpos
             ELSE IF searchidx < actidx THEN BinSearch(keys, searchidx, minpos, actpos - 1)
             ELSE BinSearch(keys, searchidx, actpos + 1, maxpos)

(* ----------------------- changing announcements ----------------------- *)

\* the LP is neither flushed nor solved any more (the tail of coefChanged)
lpUnflushCoef(l) ==
    [l EXCEPT !.flushed = FALSE, !.solved = FALSE, !.dualfeasible = FALSE,
              !.primalfeasible = FALSE, !.objval = SCIP_INVALID, !.lpsolstat = "NOTSOLVED"]

\* coefChanged() that marks the row or the column but leaves the LP flags alone
coefChangedKeepsFlushed(h, r, c) ==
    LET rp == h.row[r].lpipos
        cp == h.col[c].lpipos
    IN  IF rp >= 0 /\ cp >= 0
        THEN IF rp >= h.lp.lpifirstchgrow
             THEN [h EXCEPT !.row[r].coefchanged = TRUE]
             ELSE IF cp >= h.lp.lpifirstchgcol
             THEN [h EXCEPT !.col[c].coefchanged = TRUE]
             ELSE IF h.lp.lpifirstchgrow - rp <= h.lp.lpifirstchgcol - cp
             THEN [h EXCEPT !.row[r].coefchanged = TRUE, !.lp.lpifirstchgrow = rp]
             ELSE [h EXCEPT !.col[c].coefchanged = TRUE, !.lp.lpifirstchgcol = cp]
        ELSE h

\* coefChanged() that marks the row or the column but leaves the boundaries
\* lpifirstchgrow and lpifirstchgcol alone
coefChangedKeepsBoundary(h, r, c) ==
    LET rp == h.row[r].lpipos
        cp == h.col[c].lpipos
    IN  IF rp >= 0 /\ cp >= 0
        THEN LET h1 ==
                   IF rp >= h.lp.lpifirstchgrow
                   THEN [h EXCEPT !.row[r].coefchanged = TRUE]
                   ELSE IF cp >= h.lp.lpifirstchgcol
                   THEN [h EXCEPT !.col[c].coefchanged = TRUE]
                   ELSE IF h.lp.lpifirstchgrow - rp <= h.lp.lpifirstchgcol - cp
                   THEN [h EXCEPT !.row[r].coefchanged = TRUE]
                   ELSE [h EXCEPT !.col[c].coefchanged = TRUE]
             IN  [h1 EXCEPT !.lp = lpUnflushCoef(h1.lp)]
        ELSE h

\* announces, that the given coefficient in the constraint matrix changed
coefChanged(h, r, c) ==
    LET rp == h.row[r].lpipos
        cp == h.col[c].lpipos
    IN  IF rp >= 0 /\ cp >= 0
        THEN LET h1 ==
                   IF rp >= h.lp.lpifirstchgrow
                   THEN [h EXCEPT !.row[r].coefchanged = TRUE]
                   ELSE IF cp >= h.lp.lpifirstchgcol
                   THEN [h EXCEPT !.col[c].coefchanged = TRUE]
                   ELSE IF h.lp.lpifirstchgrow - rp <= h.lp.lpifirstchgcol - cp
                   THEN [h EXCEPT !.row[r].coefchanged = TRUE, !.lp.lpifirstchgrow = rp]
                   ELSE [h EXCEPT !.col[c].coefchanged = TRUE, !.lp.lpifirstchgcol = cp]
             IN  [h1 EXCEPT !.lp = lpUnflushCoef(h1.lp)]
        ELSE h

(* ------------------------ sorting and searching ----------------------- *)

\* the function f on 1..n as a sequence
RECURSIVE AsSeqUpTo(_, _)
AsSeqUpTo(f, n) == IF n = 0 THEN <<>> ELSE Append(AsSeqUpTo(f, n - 1), f[n])

Permute(s, perm) == AsSeqUpTo([i \in 1..Len(perm) |-> s[perm[i]]], Len(perm))

\* the last slot i (1-based) of the sorted vector that is linked to slot j of
\* the opposite vector of entity e, or 0: the link update loop writes in order
LastLinked(ents, links, e, j) ==
    LET S == {i \in 1..Len(ents) : ents[i] = e /\ links[i] = j}
    IN  IF S = {} THEN 0 ELSE CHOOSE i \in S : \A k \in S : k <= i

SCIPcolSort(h, c) ==
    IF h.col[c].sorted THEN h
    ELSE LET v == h.col[c]
             perm == SortPerm(v.rows)
             nrws == Permute(v.rows, perm)
             nlnk == Permute(v.linkpos, perm)
             newrow == [r \in RowIds |->
                          [h.row[r] EXCEPT !.linkpos = AsSeqUpTo(
                              [j \in 1..Len(h.row[r].linkpos) |->
                                  LET i == LastLinked(nrws, nlnk, r, j - 1)
                                  IN  IF i = 0 THEN h.row[r].linkpos[j] ELSE i - 1],
                              Len(h.row[r].linkpos))]]
         IN  [h EXCEPT !.row = newrow,
                       !.col[c].rows = nrws,
                       !.col[c].vals = Permute(v.vals, perm),
                       !.col[c].linkpos = nlnk,
                       !.col[c].sorted = TRUE]

SCIProwSort(h, r) ==
    IF h.row[r].sorted THEN h
    ELSE LET v == h.row[r]
             perm == SortPerm(v.cols)
             ncls == Permute(v.cols, perm)
             nlnk == Permute(v.linkpos, perm)
             newcol == [c \in ColIds |->
                          [h.col[c] EXCEPT !.linkpos = AsSeqUpTo(
                              [j \in 1..Len(h.col[c].linkpos) |->
                                  LET i == LastLinked(ncls, nlnk, c, j - 1)
                                  IN  IF i = 0 THEN h.col[c].linkpos[j] ELSE i - 1],
                              Len(h.col[c].linkpos))]]
         IN  [h EXCEPT !.col = newcol,
                       !.row[r].cols = ncls,
                       !.row[r].vals = Permute(v.vals, perm),
                       !.row[r].linkpos = nlnk,
                       !.row[r].sorted = TRUE]

\* colSearchCoeff() is SCIPcolSort() followed by the binary search
colSearchPos(h, c, r) == BinSearch(h.col[c].rows, r, 0, Len(h.col[c].rows) - 1)

rowSearchPos(h, r, c) == BinSearch(h.row[r].cols, c, 0, Len(h.row[r].cols) - 1)


(* -------------------- local column changing methods ------------------- *)

\* colAddCoeff() that leaves the sorted flag of the column as it is
colAddCoeffKeepsSorted(h, c, r, val, linkpos) ==
    IF ~Ok(h) THEN h
    ELSE LET v == h.col[c]
             h1 == [h EXCEPT !.col[c].rows = Append(v.rows, r),
                             !.col[c].vals = Append(v.vals, val),
                             !.col[c].linkpos = Append(v.linkpos, linkpos),
                             !.col[c].nunlinked = IF linkpos = -1 THEN v.nunlinked + 1
                                                  ELSE v.nunlinked]
         IN  coefChanged(h1, r, c)

\* adds a previously non existing coefficient to an LP column; the position
\* the code stores in *rowpos is the column's length before the call
colAddCoeff(h, c, r, val, linkpos) ==
    IF ~Ok(h) THEN h
    ELSE LET v == h.col[c]
             len == Len(v.rows)
             srt == IF len > 0 THEN v.sorted /\ (v.rows[len] < r) ELSE v.sorted
             h1 == [h EXCEPT !.col[c].sorted = srt,
                             !.col[c].rows = Append(v.rows, r),
                             !.col[c].vals = Append(v.vals, val),
                             !.col[c].linkpos = Append(v.linkpos, linkpos),
                             !.col[c].nunlinked = IF linkpos = -1 THEN v.nunlinked + 1
                                                  ELSE v.nunlinked]
         IN  coefChanged(h1, r, c)

\* deletes coefficient at given position from column
colDelCoeffPos(h, c, pos) ==
    IF ~Ok(h) THEN h
    ELSE LET v == h.col[c]
             len == Len(v.rows)
             r == v.rows[pos + 1]
             h1 == IF v.linkpos[pos + 1] = -1
                   THEN [h EXCEPT !.col[c].nunlinked = v.nunlinked - 1]
                   ELSE h
             h2 == IF pos < len - 1
                   THEN LET mrow == v.rows[len]
                            mlnk == v.linkpos[len]
                            h1a == [h1 EXCEPT !.col[c].rows[pos + 1] = mrow,
                                              !.col[c].vals[pos + 1] = v.vals[len],
                                              !.col[c].linkpos[pos + 1] = mlnk,
                                              !.col[c].sorted = FALSE]
                        IN  IF mlnk # -1
                            THEN [h1a EXCEPT !.row[mrow].linkpos[mlnk + 1] = pos]
                            ELSE h1a
                   ELSE h1
             h3 == [h2 EXCEPT !.col[c].rows = Front(h2.col[c].rows),
                              !.col[c].vals = Front(h2.col[c].vals),
                              !.col[c].linkpos = Front(h2.col[c].linkpos)]
         IN  coefChanged(h3, r, c)

\* colChgCoeffPos() that stores a zero value instead of deleting the entry
colChgCoeffPosStoresZero(h, c, pos, val) ==
    IF ~Ok(h) THEN h
    ELSE IF ~SCIPsetIsEQ(h.col[c].vals[pos + 1], val)
    THEN coefChanged([h EXCEPT !.col[c].vals[pos + 1] = val], h.col[c].rows[pos + 1], c)
    ELSE h

\* changes a coefficient at given position of an LP column
colChgCoeffPos(h, c, pos, val) ==
    IF ~Ok(h) THEN h
    ELSE IF SCIPsetIsZero(val) THEN colDelCoeffPos(h, c, pos)
    ELSE IF ~SCIPsetIsEQ(h.col[c].vals[pos + 1], val)
    THEN coefChanged([h EXCEPT !.col[c].vals[pos + 1] = val], h.col[c].rows[pos + 1], c)
    ELSE h

(* --------------------- local row changing methods --------------------- *)

SCIProwInvalidActivityBounds(h, r) ==
    [h EXCEPT !.row[r].validactivitybds = FALSE,
              !.row[r].minactivity = SCIP_INVALID,
              !.row[r].maxactivity = SCIP_INVALID,
              !.row[r].minactivityinf = -1,
              !.row[r].maxactivityinf = -1]

\* an invalidation that forgets the activity bounds
rowInvalidPseudoActivity(h, r) ==
    [h EXCEPT !.row[r].pseudoactivity = SCIP_INVALID, !.row[r].validpsactivity = FALSE]

rowInvalidCaches(h, r) ==
    SCIProwInvalidActivityBounds([h EXCEPT !.row[r].pseudoactivity = SCIP_INVALID,
                                           !.row[r].validpsactivity = FALSE], r)

\* adds a previously non existing coefficient to an LP row; the position the
\* code stores in *colpos is the row's length before the call
rowAddCoeff(h, r, c, val, linkpos) ==
    IF ~Ok(h) THEN h
    ELSE IF h.row[r].nlocks > 0 THEN Fail(h, "INVALIDDATA")
    ELSE LET v == h.row[r]
             len == Len(v.cols)
             srt == IF len > 0 THEN v.sorted /\ (v.cols[len] < c) ELSE v.sorted
             h1 == [h EXCEPT !.row[r].sorted = srt,
                             !.row[r].cols = Append(v.cols, c),
                             !.row[r].vals = Append(v.vals, val),
                             !.row[r].linkpos = Append(v.linkpos, linkpos),
                             !.row[r].nunlinked = IF linkpos = -1 THEN v.nunlinked + 1
                                                  ELSE v.nunlinked]
         IN  coefChanged(rowInvalidCaches(h1, r), r, c)

\* rowDelCoeffPos() that does not look at the locks of the row
rowDelCoeffPosUnlocked(h, r, pos) ==
    IF ~Ok(h) THEN h
    ELSE LET v == h.row[r]
             len == Len(v.cols)
             c == v.cols[pos + 1]
             h1 == IF v.linkpos[pos + 1] = -1
                   THEN [h EXCEPT !.row[r].nunlinked = v.nunlinked - 1]
                   ELSE h
             h2 == IF pos < len - 1
                   THEN LET mcol == v.cols[len]
                            mlnk == v.linkpos[len]
                            h1a == [h1 EXCEPT !.row[r].cols[pos + 1] = mcol,
                                              !.row[r].vals[pos + 1] = v.vals[len],
                                              !.row[r].linkpos[pos + 1] = mlnk,
                                              !.row[r].sorted = FALSE]
                        IN  IF mlnk # -1
                            THEN [h1a EXCEPT !.col[mcol].linkpos[mlnk + 1] = pos]
                            ELSE h1a
                   ELSE h1
             h3 == [h2 EXCEPT !.row[r].cols = Front(h2.row[r].cols),
                              !.row[r].vals = Front(h2.row[r].vals),
                              !.row[r].linkpos = Front(h2.row[r].linkpos)]
         IN  coefChanged(rowInvalidCaches(h3, r), r, c)

\* deletes coefficient at given position from row
rowDelCoeffPos(h, r, pos) ==
    IF ~Ok(h) THEN h
    ELSE IF h.row[r].nlocks > 0 THEN Fail(h, "INVALIDDATA")
    ELSE LET v == h.row[r]
             len == Len(v.cols)
             c == v.cols[pos + 1]
             h1 == IF v.linkpos[pos + 1] = -1
                   THEN [h EXCEPT !.row[r].nunlinked = v.nunlinked - 1]
                   ELSE h
             h2 == IF pos < len - 1
                   THEN LET mcol == v.cols[len]
                            mlnk == v.linkpos[len]
                            h1a == [h1 EXCEPT !.row[r].cols[pos + 1] = mcol,
                                              !.row[r].vals[pos + 1] = v.vals[len],
                                              !.row[r].linkpos[pos + 1] = mlnk,
                                              !.row[r].sorted = FALSE]
                        IN  IF mlnk # -1
                            THEN [h1a EXCEPT !.col[mcol].linkpos[mlnk + 1] = pos]
                            ELSE h1a
                   ELSE h1
             h3 == [h2 EXCEPT !.row[r].cols = Front(h2.row[r].cols),
                              !.row[r].vals = Front(h2.row[r].vals),
                              !.row[r].linkpos = Front(h2.row[r].linkpos)]
         IN  coefChanged(rowInvalidCaches(h3, r), r, c)

\* changes a coefficient at given position of an LP row
rowChgCoeffPos(h, r, pos, val) ==
    IF ~Ok(h) THEN h
    ELSE IF h.row[r].nlocks > 0 THEN Fail(h, "INVALIDDATA")
    ELSE IF SCIPsetIsZero(val) THEN rowDelCoeffPos(h, r, pos)
    ELSE IF ~SCIPsetIsEQ(h.row[r].vals[pos + 1], val)
    THEN rowInvalidCaches(
             coefChanged([h EXCEPT !.row[r].vals[pos + 1] = val], r, h.row[r].cols[pos + 1]), r)
    ELSE h

\* the LP is neither flushed nor solved any more (the tail of rowSideChanged
\* and of SCIPcolBoundChanged)
lpUnflushSide(l) ==
    [l EXCEPT !.flushed = FALSE, !.solved = FALSE, !.primalfeasible = FALSE,
              !.objval = SCIP_INVALID, !.lpsolstat = "NOTSOLVED"]

\* notifies LP row, that its sides were changed
rowSideChanged(h, r, sidetype) ==
    IF ~Ok(h) THEN h
    ELSE IF h.row[r].lpipos >= 0
    THEN LET v == h.row[r]
             h1 == IF ~v.lhschanged /\ ~v.rhschanged
                   THEN [h EXCEPT !.lp.chgrows = Append(h.lp.chgrows, r)]
                   ELSE h
             h2 == IF sidetype = "LEFT"
                   THEN [h1 EXCEPT !.row[r].lhschanged = TRUE]
                   ELSE [h1 EXCEPT !.row[r].rhschanged = TRUE]
         IN  [h2 EXCEPT !.lp = lpUnflushSide(h2.lp)]
    ELSE h

(* ---------------- double linked coefficient matrix methods ------------ *)

\* insert column coefficients in corresponding rows: the loop from entry i
RECURSIVE colLinkFrom(_, _, _)
colLinkFrom(h, c, i) ==
    IF ~Ok(h) \/ i >= Len(h.col[c].rows) THEN h
    ELSE IF h.col[c].linkpos[i + 1] = -1
    THEN LET r == h.col[c].rows[i + 1]
             colpos == Len(h.row[r].cols)
             h1 == rowAddCoeff(h, r, c, h.col[c].vals[i + 1], i)
         IN  IF ~Ok(h1) THEN h1
             ELSE colLinkFrom([h1 EXCEPT !.col[c].linkpos[i + 1] = colpos,
                                         !.col[c].nunlinked = h1.col[c].nunlinked - 1],
                              c, i + 1)
    ELSE colLinkFrom(h, c, i + 1)

colLink(h, c) ==
    IF ~Ok(h) THEN h
    ELSE IF h.col[c].nunlinked > 0 THEN colLinkFrom(h, c, 0)
    ELSE h

\* insert row coefficients in corresponding columns: the loop from entry i
RECURSIVE rowLinkFrom(_, _, _)
rowLinkFrom(h, r, i) ==
    IF ~Ok(h) \/ i >= Len(h.row[r].cols) THEN h
    ELSE IF h.row[r].linkpos[i + 1] = -1
    THEN LET c == h.row[r].cols[i + 1]
             rowpos == Len(h.col[c].rows)
             h1 == colAddCoeff(h, c, r, h.row[r].vals[i + 1], i)
         IN  IF ~Ok(h1) THEN h1
             ELSE rowLinkFrom([h1 EXCEPT !.row[r].linkpos[i + 1] = rowpos,
                                         !.row[r].nunlinked = h1.row[r].nunlinked - 1],
                              r, i + 1)
    ELSE rowLinkFrom(h, r, i + 1)

rowLink(h, r) ==
    IF ~Ok(h) THEN h
    ELSE IF h.row[r].nunlinked > 0 THEN rowLinkFrom(h, r, 0)
    ELSE h

\* the end of one pass of the loop of colUnlink: h is the heap after
\* rowDelCoeffPos(), entry i of column c is marked unlinked
colUnlinked(h, c, i) ==
    IF ~Ok(h) THEN h
    ELSE [h EXCEPT !.col[c].linkpos[i + 1] = -1,
                   !.col[c].nunlinked = h.col[c].nunlinked + 1]

\* removes column coefficients from corresponding rows: the loop from entry i
RECURSIVE colUnlinkFrom(_, _, _)
colUnlinkFrom(h, c, i) ==
    IF ~Ok(h) \/ i >= Len(h.col[c].rows) THEN h
    ELSE IF h.col[c].linkpos[i + 1] # -1
    THEN colUnlinkFrom(
             colUnlinked(rowDelCoeffPos(h, h.col[c].rows[i + 1], h.col[c].linkpos[i + 1]), c, i),
             c, i + 1)
    ELSE colUnlinkFrom(h, c, i + 1)

colUnlink(h, c) ==
    IF ~Ok(h) THEN h
    ELSE IF h.col[c].nunlinked < Len(h.col[c].rows) THEN colUnlinkFrom(h, c, 0)
    ELSE h

\* the end of one pass of the loop of rowUnlink: h is the heap after
\* colDelCoeffPos(); the entry is counted as unlinked, row->linkpos[i] is
\* not written
rowUnlinked(h, r) ==
    IF ~Ok(h) THEN h
    ELSE [h EXCEPT !.row[r].nunlinked = h.row[r].nunlinked + 1]

\* removes row coefficients from corresponding columns: the loop from entry i
RECURSIVE rowUnlinkFrom(_, _, _)
rowUnlinkFrom(h, r, i) ==
    IF ~Ok(h) \/ i >= Len(h.row[r].cols) THEN h
    ELSE IF h.row[r].linkpos[i + 1] # -1
    THEN rowUnlinkFrom(
             rowUnlinked(colDelCoeffPos(h, h.row[r].cols[i + 1], h.row[r].linkpos[i + 1]), r),
             r, i + 1)
    ELSE rowUnlinkFrom(h, r, i + 1)

rowUnlink(h, r) ==
    IF ~Ok(h) THEN h
    ELSE IF h.row[r].nunlinked < Len(h.row[r].cols) THEN rowUnlinkFrom(h, r, 0)
    ELSE h

(* ------------------- activities of a row (caches) --------------------- *)

\* updates rows pseudo activity after the best bound of column changed
rowUpdatePseudoActivity(h, r, pos, oldbestbound, newbestbound) ==
    IF h.row[r].validpsactivity
    THEN [h EXCEPT !.row[r].pseudoactivity =
             RealAdd(@, RealAdd(newbestbound, -oldbestbound) * h.row[r].vals[pos + 1])]
    ELSE h

\* what a bound adds to the finite part of an activity bound, and to the
\* number of infinite contributions; isinf tells that the bound is infinite
\* in the direction of the activity bound
FinitePart(val, bound, isinf) == IF isinf THEN 0 ELSE val * bound

InfinitePart(isinf) == IF isinf THEN 1 ELSE 0

\* updates rows activity bounds after the lower bound of column changed
rowUpdateActivityBoundsLb(h, r, pos, oldlb, newlb) ==
    IF ~h.row[r].validactivitybds THEN h
    ELSE IF h.row[r].vals[pos + 1] > 0
    THEN [h EXCEPT !.row[r].minactivityinf = @ - InfinitePart(SCIPsetIsInfinity(-oldlb))
                                               + InfinitePart(SCIPsetIsInfinity(-newlb)),
                   !.row[r].minactivity =
                       @ - FinitePart(h.row[r].vals[pos + 1], oldlb, SCIPsetIsInfinity(-oldlb))
                         + FinitePart(h.row[r].vals[pos + 1], newlb, SCIPsetIsInfinity(-newlb))]
    ELSE [h EXCEPT !.row[r].maxactivityinf = @ - InfinitePart(SCIPsetIsInfinity(-oldlb))
                                               + InfinitePart(SCIPsetIsInfinity(-newlb)),
                   !.row[r].maxactivity =
                       @ - FinitePart(h.row[r].vals[pos + 1], oldlb, SCIPsetIsInfinity(-oldlb))
                         + FinitePart(h.row[r].vals[pos + 1], newlb, SCIPsetIsInfinity(-newlb))]

\* updates rows activity bounds after the upper bound of column changed
rowUpdateActivityBoundsUb(h, r, pos, oldub, newub) ==
    IF ~h.row[r].validactivitybds THEN h
    ELSE IF h.row[r].vals[pos + 1] > 0
    THEN [h EXCEPT !.row[r].maxactivityinf = @ - InfinitePart(SCIPsetIsInfinity(oldub))
                                               + InfinitePart(SCIPsetIsInfinity(newub)),
                   !.row[r].maxactivity =
                       @ - FinitePart(h.row[r].vals[pos + 1], oldub, SCIPsetIsInfinity(oldub))
                         + FinitePart(h.row[r].vals[pos + 1], newub, SCIPsetIsInfinity(newub))]
    ELSE [h EXCEPT !.row[r].minactivityinf = @ - InfinitePart(SCIPsetIsInfinity(oldub))
                                               + InfinitePart(SCIPsetIsInfinity(newub)),
                   !.row[r].minactivity =
                       @ - FinitePart(h.row[r].vals[pos + 1], oldub, SCIPsetIsInfinity(oldub))
                         + FinitePart(h.row[r].vals[pos + 1], newub, SCIPsetIsInfinity(newub))]

\* SCIPvarGetPseudoSol(): the best bound of the variable with respect to the
\* objective function
SCIPvarGetPseudoSol(h, c) == IF h.col[c].obj >= 0 THEN h.col[c].lb ELSE h.col[c].ub

\* the loop of rowCalcPseudoActivity() from position i on
RECURSIVE rowCalcPseudoActivityFrom(_, _, _)
rowCalcPseudoActivityFrom(h, r, i) ==
    IF i >= Len(h.row[r].cols) THEN h
    ELSE rowCalcPseudoActivityFrom(
             rowUpdatePseudoActivity(h, r, i, 0, SCIPvarGetPseudoSol(h, h.row[r].cols[i + 1])),
             r, i + 1)

\* the row was linked for the calculation of its pseudo activity
rowPseudoActivityLinked(h, r) ==
    IF ~Ok(h) THEN h
    ELSE rowCalcPseudoActivityFrom(
             [h EXCEPT !.row[r].validpsactivity = TRUE,
                       !.row[r].pseudoactivity = h.row[r].constant], r, 0)

\* calculates the actual pseudo activity of a row
rowCalcPseudoActivity(h, r) == rowPseudoActivityLinked(rowLink(h, r), r)

\* returns the pseudo activity of a row: the heap after the call, the value
\* returned is row->pseudoactivity
SCIProwGetPseudoActivity(h, r) ==
    IF ~Ok(h) THEN h
    ELSE IF ~h.row[r].validpsactivity THEN rowCalcPseudoActivity(h, r)
    ELSE h

\* the loop of rowCalcActivityBounds() from position i on
RECURSIVE rowCalcActivityBoundsFrom(_, _, _)
rowCalcActivityBoundsFrom(h, r, i) ==
    IF i >= Len(h.row[r].cols) THEN h
    ELSE rowCalcActivityBoundsFrom(
             rowUpdateActivityBoundsUb(
                 rowUpdateActivityBoundsLb(h, r, i, 0, h.col[h.row[r].cols[i + 1]].lb),
                 r, i, 0, h.col[h.row[r].cols[i + 1]].ub),
             r, i + 1)

\* the row was linked for the calculation of its activity bounds
rowActivityBoundsLinked(h, r) ==
    IF ~Ok(h) THEN h
    ELSE rowCalcActivityBoundsFrom(
             [h EXCEPT !.row[r].validactivitybds = TRUE,
                       !.row[r].minactivity = h.row[r].constant,
                       !.row[r].maxactivity = h.row[r].constant,
                       !.row[r].minactivityinf = 0,
                       !.row[r].maxactivityinf = 0], r, 0)

\* calculates minimal and maximal activity of row w.r.t. the column's bounds
rowCalcActivityBounds(h, r) == rowActivityBoundsLinked(rowLink(h, r), r)

\* returns the minimal and maximal activity of a row w.r.t. the column's
\* bounds: the heap after the call
SCIProwGetActivityBounds(h, r) ==
    IF ~Ok(h) THEN h
    ELSE IF ~h.row[r].validactivitybds THEN rowCalcActivityBounds(h, r)
    ELSE h

\* the values SCIProwGetActivityBounds() stores in *minactivity, *maxactivity
MinActivityOut(h, r) ==
    IF h.row[r].minactivityinf > 0 THEN -SetInfinity ELSE h.row[r].minactivity

MaxActivityOut(h, r) ==
    IF h.row[r].maxactivityinf > 0 THEN SetInfinity ELSE h.row[r].maxactivity

\* gets activity bounds for row after setting variable to zero: the heap
\* after the call; the return code of rowCalcActivityBounds() is not looked at
SCIProwGetActivityResiduals(h, r) ==
    IF ~Ok(h) THEN h
    ELSE IF ~h.row[r].validactivitybds
    THEN [rowCalcActivityBounds(h, r) EXCEPT !.rc = "OKAY"]
    ELSE h

\* a residual that is infinite as soon as one contribution is infinite
ResidualAnyInfinite(isinf, ninf, act, val, bound, inf) ==
    IF ninf >= 1 THEN inf ELSE act - val * bound

\* the residual of one activity bound: isinf tells that the bound of the
\* variable is infinite in the direction of the activity bound, ninf is the
\* number of infinite contributions, act the finite part, inf the value
\* stored for an infinite residual
Residual(isinf, ninf, act, val, bound, inf) ==
    IF isinf
    THEN IF ninf >= 2 THEN inf ELSE act
    ELSE IF ninf >= 1 THEN inf ELSE act - val * bound

\* the value SCIProwGetActivityResiduals() stores in *minresactivity for the
\* variable of column c with coefficient val
MinResActivityOut(h, r, c, val) ==
    IF val > 0
    THEN Residual(SCIPsetIsInfinity(-h.col[c].lb), h.row[r].minactivityinf,
                  h.row[r].minactivity, val, h.col[c].lb, -SetInfinity)
    ELSE Residual(SCIPsetIsInfinity(h.col[c].ub), h.row[r].minactivityinf,
                  h.row[r].minactivity, val, h.col[c].ub, -SetInfinity)

\* the value SCIProwGetActivityResiduals() stores in *maxresactivity
MaxResActivityOut(h, r, c, val) ==
    IF val > 0
    THEN Residual(SCIPsetIsInfinity(h.col[c].ub), h.row[r].maxactivityinf,
                  h.row[r].maxactivity, val, h.col[c].ub, SetInfinity)
    ELSE Residual(SCIPsetIsInfinity(-h.col[c].lb), h.row[r].maxactivityinf,
                  h.row[r].maxactivity, val, h.col[c].lb, SetInfinity)

(* ----------------------- public column methods ------------------------ *)

\* colSearchCoeff(): sorts the column, then searches the row in it
colSearchCoeff(h, c, r) == colSearchPos(SCIPcolSort(h, c), c, r)

\* rowSearchCoeff(): sorts the row, then searches the column in it
rowSearchCoeff(h, r, c) == rowSearchPos(SCIProwSort(h, r), r, c)

\* adds a previously non existing coefficient to an LP column
SCIPcolAddCoeff(h, c, r, val) == colAddCoeff(h, c, r, val, -1)

\* SCIPcolDelCoeff() that returns without an error if there is no coefficient
SCIPcolDelCoeffIgnoresMiss(h, c, r) ==
    LET hs == SCIPcolSort(h, c)
        pos == colSearchPos(hs, c, r)
    IN  IF pos = -1 THEN hs
        ELSE LET lnk == hs.col[c].linkpos[pos + 1]
                 h1 == IF lnk # -1 THEN rowDelCoeffPos(hs, r, lnk) ELSE hs
             IN  colDelCoeffPos(h1, c, pos)

\* deletes existing coefficient from column
SCIPcolDelCoeff(h, c, r) ==
    LET hs == SCIPcolSort(h, c)
        pos == colSearchPos(hs, c, r)
    IN  IF pos = -1 THEN Fail(hs, "INVALIDDATA")
        ELSE LET lnk == hs.col[c].linkpos[pos + 1]
                 h1 == IF lnk # -1 THEN rowDelCoeffPos(hs, r, lnk) ELSE hs
             IN  colDelCoeffPos(h1, c, pos)

\* changes or adds a coefficient to an LP column
SCIPcolChgCoeff(h, c, r, val) ==
    LET hs == SCIPcolSort(h, c)
        pos == colSearchPos(hs, c, r)
    IN  IF pos = -1 THEN colAddCoeff(hs, c, r, val, -1)
        ELSE LET lnk == hs.col[c].linkpos[pos + 1]
                 h1 == IF lnk # -1 THEN rowChgCoeffPos(hs, r, lnk, val) ELSE hs
             IN  colChgCoeffPos(h1, c, pos, val)

\* the end of SCIPcolIncCoeff for an existing coefficient at position pos: h
\* is the heap after the change of the row's entry, val the new value
colIncCoeffPos(h, c, pos, val) == colChgCoeffPos(h, c, pos, val)

\* increases value of an existing or nonexisting coefficient in an LP column
SCIPcolIncCoeff(h, c, r, incval) ==
    IF SCIPsetIsZero(incval) THEN h
    ELSE LET hs == SCIPcolSort(h, c)
             pos == colSearchPos(hs, c, r)
         IN  IF pos = -1 THEN colAddCoeff(hs, c, r, incval, -1)
             ELSE LET lnk == hs.col[c].linkpos[pos + 1]
                      val == hs.col[c].vals[pos + 1] + incval
                  IN  colIncCoeffPos(IF lnk # -1 THEN rowChgCoeffPos(hs, r, lnk, val) ELSE hs,
                                     c, pos, val)

\* the column is put on the list of changed columns and the LP is not flushed
\* any more (SCIPcolBoundChanged() for a column of the LP solver)
colBoundMarked(h, c, boundtype) ==
    IF h.col[c].lpipos >= 0
    THEN LET v == h.col[c]
             h1 == IF ~v.lbchanged /\ ~v.ubchanged
                   THEN [h EXCEPT !.lp.chgcols = Append(h.lp.chgcols, c)]
                   ELSE h
             h2 == IF boundtype = "LOWER"
                   THEN [h1 EXCEPT !.col[c].lbchanged = TRUE]
                   ELSE [h1 EXCEPT !.col[c].ubchanged = TRUE]
         IN  [h2 EXCEPT !.lp = lpUnflushSide(h2.lp)]
    ELSE h

\* the body of the loops of SCIPcolBoundChanged() for the linked entry of
\* column c that is at position pos of row r
rowBoundChanged(h, c, r, pos, boundtype, oldbound, newbound) ==
    IF boundtype = "LOWER"
    THEN rowUpdateActivityBoundsLb(
             IF h.col[c].obj >= 0
             THEN rowUpdatePseudoActivity(h, r, pos, oldbound, newbound)
             ELSE h,
             r, pos, oldbound, newbound)
    ELSE rowUpdateActivityBoundsUb(
             IF h.col[c].obj < 0
             THEN rowUpdatePseudoActivity(h, r, pos, oldbound, newbound)
             ELSE h,
             r, pos, oldbound, newbound)

\* the loops of SCIPcolBoundChanged() over the entries of the column from
\* entry i on: the rows of the entries with linkpos >= 0 are updated. That the
\* position names the column is an assert(): a build with assertions stops
\* the program, a build without them (ndebug) updates the row at the position
RECURSIVE colBoundChangedFrom(_, _, _, _, _, _, _)
colBoundChangedFrom(h, c, i, boundtype, oldbound, newbound, ndebug) ==
    IF ~Ok(h) \/ i >= Len(h.col[c].rows) THEN h
    ELSE IF h.col[c].linkpos[i + 1] < 0
    THEN colBoundChangedFrom(h, c, i + 1, boundtype, oldbound, newbound, ndebug)
    ELSE IF ~ndebug /\ h.row[h.col[c].rows[i + 1]].cols[h.col[c].linkpos[i + 1] + 1] # c
    THEN Fail(h, "ABORT")
    ELSE colBoundChangedFrom(
             rowBoundChanged(h, c, h.col[c].rows[i + 1], h.col[c].linkpos[i + 1],
                             boundtype, oldbound, newbound),
             c, i + 1, boundtype, oldbound, newbound, ndebug)

\* notifies LP, that the bounds of a column were changed
SCIPcolBoundChanged(h, c, boundtype, oldbound, newbound, ndebug) ==
    IF ~Ok(h) THEN h
    ELSE colBoundChangedFrom(colBoundMarked(h, c, boundtype), c, 0,
                             boundtype, oldbound, newbound, ndebug)

(* ------------------------- public row methods ------------------------- *)

\* adds a previously non existing coefficient to an LP row
SCIProwAddCoeff(h, r, c, val) == rowAddCoeff(h, r, c, val, -1)

\* deletes coefficient from row
SCIProwDelCoeff(h, r, c) ==
    LET hs == SCIProwSort(h, r)
        pos == rowSearchPos(hs, r, c)
    IN  IF pos = -1 THEN Fail(hs, "INVALIDDATA")
        ELSE LET lnk == hs.row[r].linkpos[pos + 1]
                 h1 == IF lnk # -1 THEN colDelCoeffPos(hs, c, lnk) ELSE hs
             IN  rowDelCoeffPos(h1, r, pos)

\* changes or adds a coefficient to an LP row
SCIProwChgCoeff(h, r, c, val) ==
    LET hs == SCIProwSort(h, r)
        pos == rowSearchPos(hs, r, c)
    IN  IF pos = -1 THEN rowAddCoeff(hs, r, c, val, -1)
        ELSE LET lnk == hs.row[r].linkpos[pos + 1]
                 h1 == IF lnk # -1 THEN colChgCoeffPos(hs, c, lnk, val) ELSE hs
             IN  rowChgCoeffPos(h1, r, pos, val)

\* changes left hand side of LP row
SCIProwChgLhs(h, r, lhs) ==
    IF ~SCIPsetIsEQ(h.row[r].lhs, lhs)
    THEN rowSideChanged([h EXCEPT !.row[r].lhs = lhs], r, "LEFT")
    ELSE h

\* changes right hand side of LP row
SCIProwChgRhs(h, r, rhs) ==
    IF ~SCIPsetIsEQ(h.row[r].rhs, rhs)
    THEN rowSideChanged([h EXCEPT !.row[r].rhs = rhs], r, "RIGHT")
    ELSE h

\* increases usage counter of LP row
SCIProwCapture(h, r) == [h EXCEPT !.row[r].nuses = h.row[r].nuses + 1]

\* the memory of the row is given back: h is the heap after rowUnlink()
rowFreed(h, r) ==
    IF ~Ok(h) THEN h
    ELSE [h EXCEPT !.row[r].cols = <<>>, !.row[r].vals = <<>>, !.row[r].linkpos = <<>>,
                   !.row[r].nunlinked = 0, !.row[r].sorted = TRUE, !.row[r].nlocks = 0]

\* frees an LP row
SCIProwFree(h, r) == rowFreed(rowUnlink(h, r), r)

\* decreases usage counter of LP row, and frees memory if necessary
SCIProwRelease(h, r) ==
    IF ~Ok(h) THEN h
    ELSE IF h.row[r].nuses - 1 = 0
    THEN SCIProwFree([h EXCEPT !.row[r].nuses = h.row[r].nuses - 1], r)
    ELSE [h EXCEPT !.row[r].nuses = h.row[r].nuses - 1]

\* locks an unmodifiable row, which forbids further changes
SCIProwLock(h, r) ==
    IF h.row[r].modifiable THEN Fail(h, "INVALIDDATA")
    ELSE [h EXCEPT !.row[r].nlocks = h.row[r].nlocks + 1]

\* unlocks a lock of a row; a row with no sealed lock may be modified
SCIProwUnlock(h, r) ==
    IF h.row[r].modifiable THEN Fail(h, "INVALIDDATA")
    ELSE IF h.row[r].nlocks = 0 THEN Fail(h, "INVALIDDATA")
    ELSE [h EXCEPT !.row[r].nlocks = h.row[r].nlocks - 1]

(* --------------------------- LP solver interface ---------------------- *)
(* The LP held by the solver: lpi.cols and lpi.rows are the solver's       *)
(* columns and rows by position, lpi.coef its nonzero matrix entries       *)
(* [r, c, v] by 0-based row and column position.  Every call is logged     *)
(* together with the value of lp->flushed at the time of the call.  A call *)
(* that names a position the solver does not have fails with an LP error   *)
(* and changes nothing.                                                    *)

LpiCall(h, call) == [h EXCEPT !.log = Append(h.log, [call |-> call, flushed |-> h.lp.flushed])]

\* the value the solver is given for a bound or side
LpiValue(v) ==
    IF SCIPsetIsInfinity(-v) THEN -LpiInfinity
    ELSE IF SCIPsetIsInfinity(v) THEN LpiInfinity
    ELSE v

SCIPlpiDelCols(h, firstcol, lastcol) ==
    IF ~Ok(h) THEN h
    ELSE LET g == LpiCall(h, "delcols")
             n == Len(g.lpi.cols)
             k == lastcol - firstcol + 1
         IN  IF ~(0 <= firstcol /\ firstcol <= lastcol /\ lastcol < n) THEN Fail(g, "LPERROR")
             ELSE [g EXCEPT !.lpi.cols = SubSeq(g.lpi.cols, 1, firstcol) \o SubSeq(g.lpi.cols, lastcol + 2, n),
                            !.lpi.coef = {IF e.c > lastcol THEN [e EXCEPT !.c = e.c - k] ELSE e :
                                              e \in {x \in g.lpi.coef : x.c < firstcol \/ x.c > lastcol}}]

SCIPlpiDelRows(h, firstrow, lastrow) ==
    IF ~Ok(h) THEN h
    ELSE LET g == LpiCall(h, "delrows")
             n == Len(g.lpi.rows)
             k == lastrow - firstrow + 1
         IN  IF ~(0 <= firstrow /\ firstrow <= lastrow /\ lastrow < n) THEN Fail(g, "LPERROR")
             ELSE [g EXCEPT !.lpi.rows = SubSeq(g.lpi.rows, 1, firstrow) \o SubSeq(g.lpi.rows, lastrow + 2, n),
                            !.lpi.coef = {IF e.r > lastrow THEN [e EXCEPT !.r = e.r - k] ELSE e :
                                              e \in {x \in g.lpi.coef : x.r < firstrow \/ x.r > lastrow}}]

\* newcols: the added columns [name, lb, ub]; ents: their nonzeros [j, ind, val],
\* j the 0-based number of the added column, ind the position of the row
SCIPlpiAddCols(h, newcols, ents) ==
    IF ~Ok(h) THEN h
    ELSE LET g == LpiCall(h, "addcols")
             n == Len(g.lpi.cols)
         IN  IF \E i \in 1..Len(ents) : ~(0 <= ents[i].ind /\ ents[i].ind < Len(g.lpi.rows))
             THEN Fail(g, "LPERROR")
             ELSE [g EXCEPT !.lpi.cols = g.lpi.cols \o newcols,
                            !.lpi.coef = g.lpi.coef \cup
                                {[r |-> ents[i].ind, c |-> n + ents[i].j, v |-> ents[i].val] :
                                     i \in 1..Len(ents)}]

\* newrows: the added rows [name, lhs, rhs]; ents: their nonzeros [j, ind, val],
\* j the 0-based number of the added row, ind the position of the column
SCIPlpiAddRows(h, newrows, ents) ==
    IF ~Ok(h) THEN h
    ELSE LET g == LpiCall(h, "addrows")
             n == Len(g.lpi.rows)
         IN  IF \E i \in 1..Len(ents) : ~(0 <= ents[i].ind /\ ents[i].ind < Len(g.lpi.cols))
             THEN Fail(g, "LPERROR")
             ELSE [g EXCEPT !.lpi.rows = g.lpi.rows \o newrows,
                            !.lpi.coef = g.lpi.coef \cup
                                {[r |-> n + ents[i].j, c |-> ents[i].ind, v |-> ents[i].val] :
                                     i \in 1..Len(ents)}]

\* chg: the changes [ind, lo, hi] in the order they are handed over
RECURSIVE LpiApplyBounds(_, _, _)
LpiApplyBounds(cols, chg, i) ==
    IF i > Len(chg) THEN cols
    ELSE LpiApplyBounds([cols EXCEPT ![chg[i].ind + 1].lb = chg[i].lo,
                                     ![chg[i].ind + 1].ub = chg[i].hi], chg, i + 1)

SCIPlpiChgBounds(h, chg) ==
    IF ~Ok(h) THEN h
    ELSE LET g == LpiCall(h, "chgbounds")
         IN  IF \E i \in 1..Len(chg) : ~(0 <= chg[i].ind /\ chg[i].ind < Len(g.lpi.cols))
             THEN Fail(g, "LPERROR")
             ELSE [g EXCEPT !.lpi.cols = LpiApplyBounds(g.lpi.cols, chg, 1)]

RECURSIVE LpiApplySides(_, _, _)
LpiApplySides(rows, chg, i) ==
    IF i > Len(chg) THEN rows
    ELSE LpiApplySides([rows EXCEPT ![chg[i].ind + 1].lhs = chg[i].lo,
                                    ![chg[i].ind + 1].rhs = chg[i].hi], chg, i + 1)

SCIPlpiChgSides(h, chg) ==
    IF ~Ok(h) THEN h
    ELSE LET g == LpiCall(h, "chgsides")
         IN  IF \E i \in 1..Len(chg) : ~(0 <= chg[i].ind /\ chg[i].ind < Len(g.lpi.rows))
             THEN Fail(g, "LPERROR")
             ELSE [g EXCEPT !.lpi.rows = LpiApplySides(g.lpi.rows, chg, 1)]

\* the simplex call: the solver ends with the termination signal sig and, where
\* it has one, the objective value obj
SCIPlpiSolve(h, call, sig, obj) ==
    IF ~Ok(h) THEN h
    ELSE [LpiCall(h, call) EXCEPT !.lpi.solstat = sig, !.lpi.objval = obj]

SCIPlpiSetState(h) == IF ~Ok(h) THEN h ELSE LpiCall(h, "setstate")

SCIPlpiSetRealpar(h) == IF ~Ok(h) THEN h ELSE LpiCall(h, "setrealpar")

(* ------------------------------ flushing ------------------------------ *)

\* find the first column to change: the while loop of lpFlushDelCols
RECURSIVE lpFirstChgCol(_, _)
lpFirstChgCol(h, f) ==
    IF f < nlpicols(h) /\ f < ncols(h)
       /\ h.col[h.lp.cols[f + 1]].lpipos = f
       /\ ~h.col[h.lp.cols[f + 1]].coefchanged
    THEN lpFirstChgCol(h, f + 1)
    ELSE f

\* shrink the solver's LP to the columns before lpifirstchgcol
lpShrinkLpiCols(h) ==
    IF ~Ok(h) THEN h
    ELSE IF h.lp.lpifirstchgcol < nlpicols(h)
    THEN LET f == h.lp.lpifirstchgcol
             h1 == SCIPlpiDelCols(h, f, nlpicols(h) - 1)
             gone == {h.lp.lpicols[i] : i \in (f + 1)..nlpicols(h)}
         IN  IF ~Ok(h1) THEN h1
             ELSE [h1 EXCEPT !.col = [c \in ColIds |->
                                         IF c \in gone
                                         THEN [h1.col[c] EXCEPT !.lpipos = -1, !.primsol = 0,
                                                                !.redcost = SCIP_INVALID]
                                         ELSE h1.col[c]],
                             !.lp.lpicols = SubSeq(h.lp.lpicols, 1, f)]
    ELSE h

\* applies all cached column removals to the LP solver
lpFlushDelCols(h) ==
    IF ~Ok(h) THEN h
    ELSE lpShrinkLpiCols([h EXCEPT !.lp.lpifirstchgcol = lpFirstChgCol(h, h.lp.lpifirstchgcol)])

\* find the first row to change: the while loop of lpFlushDelRows
RECURSIVE lpFirstChgRow(_, _)
lpFirstChgRow(h, f) ==
    IF f < nlpirows(h) /\ f < nrows(h)
       /\ h.row[h.lp.rows[f + 1]].lpipos = f
       /\ ~h.row[h.lp.rows[f + 1]].coefchanged
    THEN lpFirstChgRow(h, f + 1)
    ELSE f

\* shrink the solver's LP to the rows before lpifirstchgrow
lpShrinkLpiRows(h) ==
    IF ~Ok(h) THEN h
    ELSE IF h.lp.lpifirstchgrow < nlpirows(h)
    THEN LET f == h.lp.lpifirstchgrow
             h1 == SCIPlpiDelRows(h, f, nlpirows(h) - 1)
             gone == {h.lp.lpirows[i] : i \in (f + 1)..nlpirows(h)}
         IN  IF ~Ok(h1) THEN h1
             ELSE [h1 EXCEPT !.row = [r \in RowIds |->
                                         IF r \in gone
                                         THEN [h1.row[r] EXCEPT !.lpipos = -1, !.dualsol = 0,
                                                                !.activity = SCIP_INVALID]
                                         ELSE h1.row[r]],
                             !.lp.lpirows = SubSeq(h.lp.lpirows, 1, f)]
    ELSE h

\* applies all cached row removals to the LP solver
lpFlushDelRows(h) ==
    IF ~Ok(h) THEN h
    ELSE lpShrinkLpiRows([h EXCEPT !.lp.lpifirstchgrow = lpFirstChgRow(h, h.lp.lpifirstchgrow)])

\* the nonzeros [j, ind, val] of a vector whose opposite entities are in the
\* solver: ents the entities, vals the values, pos the position of each entity
RECURSIVE LpiEntries(_, _, _, _, _)
LpiEntries(ents, vals, pos, j, i) ==
    IF i > Len(ents) THEN <<>>
    ELSE IF pos[ents[i]] >= 0
    THEN <<[j |-> j, ind |-> pos[ents[i]], val |-> vals[i]]>> \o LpiEntries(ents, vals, pos, j, i + 1)
    ELSE LpiEntries(ents, vals, pos, j, i + 1)

\* one pass of the loop of lpFlushAddCols: the column id at LP position c is
\* put into the temporary memory; h1 is the heap after colLink(), a is
\* [h, cols, ents], the heap and the data collected so far
lpFillAddCol(a, h1, id, c) ==
    IF ~Ok(h1) THEN [a EXCEPT !.h = h1]
    ELSE LET h2 == [h1 EXCEPT !.col[id].lpipos = c,
                              !.col[id].primsol = SCIP_INVALID,
                              !.col[id].redcost = SCIP_INVALID,
                              !.col[id].lbchanged = FALSE,
                              !.col[id].ubchanged = FALSE,
                              !.col[id].coefchanged = FALSE]
             v == h2.col[id]
         IN  [h |-> h2,
              cols |-> Append(a.cols, [name |-> id, lb |-> LpiValue(v.lb),
                                       ub |-> LpiValue(v.ub)]),
              ents |-> a.ents \o LpiEntries(v.rows, v.vals,
                                            [r \in RowIds |-> h2.row[r].lpipos],
                                            c - nlpicols(a.h), 1)]

\* fill temporary memory with column data: the loop of lpFlushAddCols from
\* LP position c
RECURSIVE lpFillAddCols(_, _)
lpFillAddCols(a, c) ==
    IF ~Ok(a.h) \/ c >= ncols(a.h) THEN a
    ELSE lpFillAddCols(lpFillAddCol(a, colLink(a.h, a.h.lp.cols[c + 1]), a.h.lp.cols[c + 1], c),
                       c + 1)

\* lpFlushAddCols() that forgets to count the added columns as resident
lpFlushAddColsNoCount(h) ==
    IF ~Ok(h) THEN h
    ELSE IF ncols(h) = nlpicols(h) THEN h
    ELSE LET a == lpFillAddCols([h |-> h, cols |-> <<>>, ents |-> <<>>], nlpicols(h))
         IN  SCIPlpiAddCols(a.h, a.cols, a.ents)

\* the end of lpFlushAddCols: h1 is the heap after SCIPlpiAddCols()
lpAddedCols(h1) ==
    IF ~Ok(h1) THEN h1
    ELSE [h1 EXCEPT !.lp.lpicols = h1.lp.lpicols \o SubSeq(h1.lp.cols, nlpicols(h1) + 1, ncols(h1)),
                    !.lp.lpifirstchgcol = ncols(h1)]

\* the call of SCIPlpiAddCols() in lpFlushAddCols with the collected data a
lpSendAddCols(a) == lpAddedCols(SCIPlpiAddCols(a.h, a.cols, a.ents))

\* applies all cached column additions to the LP solver
lpFlushAddCols(h) ==
    IF ~Ok(h) THEN h
    ELSE IF ncols(h) = nlpicols(h) THEN h
    ELSE lpSendAddCols(lpFillAddCols([h |-> h, cols |-> <<>>, ents |-> <<>>], nlpicols(h)))

\* one pass of the loop of lpFlushAddRows: the row id at LP position r is put
\* into the temporary memory; h1 is the heap after rowLink(), a is
\* [h, rows, ents], the heap and the data collected so far
lpFillAddRow(a, h1, id, r) ==
    IF ~Ok(h1) THEN [a EXCEPT !.h = h1]
    ELSE LET h2 == [h1 EXCEPT !.row[id].lpipos = r,
                              !.row[id].dualsol = SCIP_INVALID,
                              !.row[id].activity = SCIP_INVALID,
                              !.row[id].lhschanged = FALSE,
                              !.row[id].rhschanged = FALSE,
                              !.row[id].coefchanged = FALSE]
             v == h2.row[id]
         IN  [h |-> h2,
              rows |-> Append(a.rows,
                          [name |-> id,
                           lhs |-> IF SCIPsetIsInfinity(-v.lhs) THEN -LpiInfinity
                                   ELSE v.lhs + v.constant,
                           rhs |-> IF SCIPsetIsInfinity(v.rhs) THEN LpiInfinity
                                   ELSE v.rhs + v.constant]),
              ents |-> a.ents \o LpiEntries(v.cols, v.vals,
                                            [c \in ColIds |-> h2.col[c].lpipos],
                                            r - nlpirows(a.h), 1)]

\* fill temporary memory with row data: the loop of lpFlushAddRows from LP
\* position r
RECURSIVE lpFillAddRows(_, _)
lpFillAddRows(a, r) ==
    IF ~Ok(a.h) \/ r >= nrows(a.h) THEN a
    ELSE lpFillAddRows(lpFillAddRow(a, rowLink(a.h, a.h.lp.rows[r + 1]), a.h.lp.rows[r + 1], r),
                       r + 1)

\* the end of lpFlushAddRows: h1 is the heap after SCIPlpiAddRows()
lpAddedRows(h1) ==
    IF ~Ok(h1) THEN h1
    ELSE [h1 EXCEPT !.lp.lpirows = h1.lp.lpirows \o SubSeq(h1.lp.rows, nlpirows(h1) + 1, nrows(h1)),
                    !.lp.lpifirstchgrow = nrows(h1)]

\* the call of SCIPlpiAddRows() in lpFlushAddRows with the collected data a
lpSendAddRows(a) == lpAddedRows(SCIPlpiAddRows(a.h, a.rows, a.ents))

\* applies all cached row additions to the LP solver
lpFlushAddRows(h) ==
    IF ~Ok(h) THEN h
    ELSE IF nrows(h) = nlpirows(h) THEN h
    ELSE lpSendAddRows(lpFillAddRows([h |-> h, rows |-> <<>>, ents |-> <<>>], nlpirows(h)))

\* collect all cached bound changes: the loop of lpFlushChgCols from entry i of
\* chgcols; a is [h, chg], the heap and the changes collected so far
RECURSIVE lpCollectChgCols(_, _)
lpCollectChgCols(a, i) ==
    IF i > Len(a.h.lp.chgcols) THEN a
    ELSE LET id == a.h.lp.chgcols[i]
             v == a.h.col[id]
         IN  IF v.lpipos >= 0 /\ (v.lbchanged \/ v.ubchanged)
             THEN lpCollectChgCols(
                      [h |-> [a.h EXCEPT !.col[id].lbchanged = FALSE, !.col[id].ubchanged = FALSE],
                       chg |-> Append(a.chg, [ind |-> v.lpipos, lo |-> LpiValue(v.lb),
                                              hi |-> LpiValue(v.ub)])],
                      i + 1)
             ELSE lpCollectChgCols(a, i + 1)

\* applies all cached column changes to the LP
lpFlushChgCols(h) ==
    IF ~Ok(h) THEN h
    ELSE IF Len(h.lp.chgcols) = 0 THEN h
    ELSE LET a == lpCollectChgCols([h |-> h, chg |-> <<>>], 1)
             h1 == IF Len(a.chg) > 0 THEN SCIPlpiChgBounds(a.h, a.chg) ELSE a.h
         IN  IF ~Ok(h1) THEN h1
             ELSE [h1 EXCEPT !.lp.chgcols = <<>>]

\* collect all cached side changes: the loop of lpFlushChgRows from entry i of
\* chgrows; a is [h, chg], the heap and the changes collected so far
RECURSIVE lpCollectChgRows(_, _)
lpCollectChgRows(a, i) ==
    IF i > Len(a.h.lp.chgrows) THEN a
    ELSE LET id == a.h.lp.chgrows[i]
             v == a.h.row[id]
         IN  IF v.lpipos >= 0 /\ (v.lhschanged \/ v.rhschanged)
             THEN lpCollectChgRows(
                      [h |-> [a.h EXCEPT !.row[id].lhschanged = FALSE, !.row[id].rhschanged = FALSE],
                       chg |-> Append(a.chg,
                                  [ind |-> v.lpipos,
                                   lo |-> IF SCIPsetIsInfinity(-v.lhs) THEN -LpiInfinity
                                          ELSE v.lhs + v.constant,
                                   hi |-> IF SCIPsetIsInfinity(v.rhs) THEN LpiInfinity
                                          ELSE v.rhs + v.constant])],
                      i + 1)
             ELSE lpCollectChgRows(a, i + 1)

\* applies all cached row changes to the LP
lpFlushChgRows(h) ==
    IF ~Ok(h) THEN h
    ELSE IF Len(h.lp.chgrows) = 0 THEN h
    ELSE LET a == lpCollectChgRows([h |-> h, chg |-> <<>>], 1)
             h1 == IF Len(a.chg) > 0 THEN SCIPlpiChgSides(a.h, a.chg) ELSE a.h
         IN  IF ~Ok(h1) THEN h1
             ELSE [h1 EXCEPT !.lp.chgrows = <<>>]

\* the end of lpFlush: h1 is the heap after the six steps
lpFlushed(h1) ==
    IF ~Ok(h1) THEN h1
    ELSE [h1 EXCEPT !.lp.flushed = TRUE]

\* lpFlush() that does not look at the flushed flag and reloads the columns
\* of the solver from position 0 on every call
lpFlushReload(h) ==
    IF ~Ok(h) THEN h
    ELSE lpFlushed(lpFlushAddRows(lpFlushAddCols(lpFlushChgRows(lpFlushChgCols(
             lpFlushDelRows(lpShrinkLpiCols([h EXCEPT !.lp.lpifirstchgcol = 0])))))))

\* lpFlush() that removes the rows from the solver only after it has added
\* the new columns
lpFlushLateDelRows(h) ==
    IF ~Ok(h) THEN h
    ELSE IF h.lp.flushed THEN h
    ELSE lpFlushed(lpFlushAddRows(lpFlushDelRows(lpFlushAddCols(lpFlushChgRows(
             lpFlushChgCols(lpFlushDelCols(h)))))))

\* applies all cached changes to the LP solver
lpFlush(h) ==
    IF ~Ok(h) THEN h
    ELSE IF h.lp.flushed THEN h
    ELSE lpFlushed(lpFlushAddRows(lpFlushAddCols(lpFlushChgRows(lpFlushChgCols(
             lpFlushDelRows(lpFlushDelCols(h)))))))

(* ------------------------------ LP methods ---------------------------- *)

\* adds a column to the LP
SCIPlpAddCol(h, c) ==
    [h EXCEPT !.lp.cols = Append(h.lp.cols, c),
              !.col[c].lppos = ncols(h),
              !.lp.flushed = FALSE,
              !.lp.solved = FALSE,
              !.lp.dualfeasible = FALSE,
              !.lp.objval = SCIP_INVALID,
              !.lp.lpsolstat = "NOTSOLVED"]

\* SCIPlpAddRow() that leaves the solved flag alone
SCIPlpAddRowStaysSolved(h, r) ==
    LET h1 == SCIProwCapture(h, r)
    IN  [h1 EXCEPT !.lp.rows = Append(h1.lp.rows, r),
                   !.row[r].lppos = nrows(h1),
                   !.lp.flushed = FALSE,
                   !.lp.primalfeasible = FALSE,
                   !.lp.objval = SCIP_INVALID,
                   !.lp.lpsolstat = "NOTSOLVED"]

\* SCIPlpAddRow() that does not capture the row
SCIPlpAddRowUncaptured(h, r) ==
    [h EXCEPT !.lp.rows = Append(h.lp.rows, r),
              !.row[r].lppos = nrows(h),
              !.lp.flushed = FALSE,
              !.lp.solved = FALSE,
              !.lp.primalfeasible = FALSE,
              !.lp.objval = SCIP_INVALID,
              !.lp.lpsolstat = "NOTSOLVED"]

\* adds a row to the LP and captures it
SCIPlpAddRow(h, r) ==
    LET h1 == SCIProwCapture(h, r)
    IN  [h1 EXCEPT !.lp.rows = Append(h1.lp.rows, r),
                   !.row[r].lppos = nrows(h1),
                   !.lp.flushed = FALSE,
                   !.lp.solved = FALSE,
                   !.lp.primalfeasible = FALSE,
                   !.lp.objval = SCIP_INVALID,
                   !.lp.lpsolstat = "NOTSOLVED"]

\* SCIPlpShrinkCols() that sets the boundary lpifirstchgcol to the new number
\* of columns
SCIPlpShrinkColsToSize(h, newncols) ==
    IF newncols < ncols(h)
    THEN LET gone == {h.lp.cols[i] : i \in (newncols + 1)..ncols(h)}
         IN  [h EXCEPT !.col = [c \in ColIds |->
                                   IF c \in gone THEN [h.col[c] EXCEPT !.lppos = -1] ELSE h.col[c]],
                       !.lp.cols = SubSeq(h.lp.cols, 1, newncols),
                       !.lp.lpifirstchgcol = newncols,
                       !.lp.flushed = FALSE,
                       !.lp.solved = FALSE,
                       !.lp.primalfeasible = FALSE,
                       !.lp.objval = SCIP_INVALID,
                       !.lp.lpsolstat = "NOTSOLVED"]
    ELSE h

\* removes all columns after the given number of cols from the LP
SCIPlpShrinkCols(h, newncols) ==
    IF newncols < ncols(h)
    THEN LET gone == {h.lp.cols[i] : i \in (newncols + 1)..ncols(h)}
         IN  [h EXCEPT !.col = [c \in ColIds |->
                                   IF c \in gone THEN [h.col[c] EXCEPT !.lppos = -1] ELSE h.col[c]],
                       !.lp.cols = SubSeq(h.lp.cols, 1, newncols),
                       !.lp.lpifirstchgcol = Min(h.lp.lpifirstchgcol, newncols),
                       !.lp.flushed = FALSE,
                       !.lp.solved = FALSE,
                       !.lp.primalfeasible = FALSE,
                       !.lp.objval = SCIP_INVALID,
                       !.lp.lpsolstat = "NOTSOLVED"]
    ELSE h

\* the loop of SCIPlpShrinkRows from LP position r: the row leaves the LP and
\* is released
RECURSIVE lpReleaseRowsFrom(_, _)
lpReleaseRowsFrom(h, r) ==
    IF ~Ok(h) \/ r >= nrows(h) THEN h
    ELSE lpReleaseRowsFrom(
             SCIProwRelease([h EXCEPT !.row[h.lp.rows[r + 1]].lppos = -1], h.lp.rows[r + 1]),
             r + 1)

\* the end of SCIPlpShrinkRows: h is the heap after the loop
lpShrunkRows(h, newnrows) ==
    IF ~Ok(h) THEN h
    ELSE [h EXCEPT !.lp.rows = SubSeq(h.lp.rows, 1, newnrows),
                   !.lp.lpifirstchgrow = Min(h.lp.lpifirstchgrow, newnrows),
                   !.lp.flushed = FALSE,
                   !.lp.solved = FALSE,
                   !.lp.dualfeasible = FALSE,
                   !.lp.objval = SCIP_INVALID,
                   !.lp.lpsolstat = "NOTSOLVED"]

\* removes and releases all rows after the given number of rows from the LP
SCIPlpShrinkRows(h, newnrows) ==
    IF newnrows < nrows(h)
    THEN lpShrunkRows(lpReleaseRowsFrom(h, newnrows), newnrows)
    ELSE h

\* remembers number of columns and rows to track the newly added ones
SCIPlpMarkSize(h) ==
    [h EXCEPT !.lp.firstnewcol = ncols(h), !.lp.firstnewrow = nrows(h)]

\* gets number of newly added columns after the last mark
SCIPlpGetNumNewcols(h) == ncols(h) - h.lp.firstnewcol

\* gets number of newly added rows after the last mark
SCIPlpGetNumNewrows(h) == nrows(h) - h.lp.firstnewrow

\* loads LP state (like basis information) into solver; the return code of
\* lpFlush() is not looked at
SCIPlpSetState(h) ==
    LET hf == lpFlush(h)
        h1 == SCIPlpiSetState([hf EXCEPT !.rc = "OKAY"])
    IN  [h1 EXCEPT !.lp.primalfeasible = TRUE, !.lp.dualfeasible = TRUE]

\* sets the feasibility tolerance of the LP solver
SCIPlpSetFeastol(h) ==
    LET h1 == SCIPlpiSetRealpar(h)
    IN  IF nrows(h1) > 0
        THEN [h1 EXCEPT !.lp.solved = FALSE,
                        !.lp.lpsolstat = "NOTSOLVED",
                        !.lp.primalfeasible = FALSE]
        ELSE h1

\* SCIPlpiGetBasisFeasibility(): what the solver reports about its basis
LpiPrimalFeasible(sig) == sig \in {"optimal", "unbounded"}

LpiDualFeasible(sig) == sig \in {"optimal", "infeasible", "objlim"}

\* the basis feasibility of the solver is stored in the LP
lpGetBasisFeasibility(h, sig) ==
    IF ~Ok(h) THEN h
    ELSE [h EXCEPT !.lp.primalfeasible = LpiPrimalFeasible(sig),
                   !.lp.dualfeasible = LpiDualFeasible(sig)]

\* the end of a solve: h is the heap after the evaluation of the status
lpSolved(h) ==
    IF ~Ok(h) THEN h ELSE [h EXCEPT !.lp.solved = TRUE]

\* the evaluation of the solution status in SCIPlpSolvePrimal()
lpPrimalSolstat(h, sig) ==
    IF ~Ok(h) THEN h
    ELSE CASE sig = "optimal" ->
                  [h EXCEPT !.lp.lpsolstat = "OPTIMAL", !.lp.objval = h.lpi.objval]
           [] sig = "infeasible" ->
                  [h EXCEPT !.lp.lpsolstat = "INFEASIBLE", !.lp.objval = SetInfinity]
           [] sig = "unbounded" ->
                  [h EXCEPT !.lp.lpsolstat = "UNBOUNDED", !.lp.objval = -SetInfinity]
           [] sig = "iterlim" ->
                  [h EXCEPT !.lp.lpsolstat = "ITERLIMIT", !.lp.objval = -SetInfinity]
           [] sig = "timelim" ->
                  [h EXCEPT !.lp.lpsolstat = "TIMELIMIT", !.lp.objval = -SetInfinity]
           [] sig = "objlim" ->
                  [h EXCEPT !.lp.lpsolstat = "ERROR", !.lp.objval = -SetInfinity,
                            !.rc = "LPERROR"]
           [] OTHER ->
                  [h EXCEPT !.lp.lpsolstat = "ERROR", !.rc = "LPERROR"]

\* the evaluation of the solution status in SCIPlpSolveDual()
lpDualSolstat(h, sig) ==
    IF ~Ok(h) THEN h
    ELSE CASE sig = "optimal" ->
                  [h EXCEPT !.lp.lpsolstat = "OPTIMAL", !.lp.objval = h.lpi.objval]
           [] sig = "objlim" ->
                  [h EXCEPT !.lp.lpsolstat = "OBJLIMIT", !.lp.objval = SetInfinity]
           [] sig = "infeasible" ->
                  [h EXCEPT !.lp.lpsolstat = "INFEASIBLE", !.lp.objval = SetInfinity]
           [] sig = "unbounded" ->
                  [h EXCEPT !.lp.lpsolstat = "UNBOUNDED", !.lp.objval = -SetInfinity]
           [] sig = "iterlim" ->
                  [h EXCEPT !.lp.lpsolstat = "ITERLIMIT", !.lp.objval = h.lpi.objval]
           [] sig = "timelim" ->
                  [h EXCEPT !.lp.lpsolstat = "TIMELIMIT", !.lp.objval = h.lpi.objval]
           [] OTHER ->
                  [h EXCEPT !.lp.lpsolstat = "ERROR", !.lp.objval = -SetInfinity,
                            !.rc = "LPERROR"]

\* the evaluation of the solution status of a primal solve that leaves the
\* cached objective value alone when the iteration limit was hit
lpPrimalSolstatStaleObjval(h, sig) ==
    IF Ok(h) /\ sig = "iterlim" THEN [h EXCEPT !.lp.lpsolstat = "ITERLIMIT"]
    ELSE lpPrimalSolstat(h, sig)

\* SCIPlpSolvePrimal() that leaves the cached objective value alone when the
\* iteration limit was hit
SCIPlpSolvePrimalStaleObjval(h, sig, obj) ==
    lpSolved(lpPrimalSolstatStaleObjval(
        lpGetBasisFeasibility(SCIPlpiSolve(lpFlush(h), "solveprimal", sig, obj), sig), sig))

\* SCIPlpSolvePrimal() that treats an exceeded objective limit the way the
\* dual solve does
SCIPlpSolvePrimalObjlimit(h, sig, obj) ==
    lpSolved(IF sig = "objlim"
             THEN lpDualSolstat(
                      lpGetBasisFeasibility(SCIPlpiSolve(lpFlush(h), "solveprimal", sig, obj), sig), sig)
             ELSE lpPrimalSolstat(
                      lpGetBasisFeasibility(SCIPlpiSolve(lpFlush(h), "solveprimal", sig, obj), sig), sig))

\* solves the LP with the primal simplex algorithm
SCIPlpSolvePrimal(h, sig, obj) ==
    lpSolved(lpPrimalSolstat(
        lpGetBasisFeasibility(SCIPlpiSolve(lpFlush(h), "solveprimal", sig, obj), sig), sig))

\* the heap h with its return code dropped
lpIgnoreRetcode(h) == [h EXCEPT !.rc = "OKAY"]

\* SCIPlpSolveDual() that does not look at the return code of lpFlush()
SCIPlpSolveDualUnchecked(h, sig, obj) ==
    lpSolved(lpDualSolstat(
        lpGetBasisFeasibility(SCIPlpiSolve(lpIgnoreRetcode(lpFlush(h)), "solvedual", sig, obj), sig), sig))

\* solves the LP with the dual simplex algorithm
SCIPlpSolveDual(h, sig, obj) ==
    lpSolved(lpDualSolstat(
        lpGetBasisFeasibility(SCIPlpiSolve(lpFlush(h), "solvedual", sig, obj), sig), sig))

\* the solution the LP solver holds after a solve that ended unbounded: the
\* values SCIPlpiGetSol() and SCIPlpiGetPrimalRay() return
LpiSolution(h, primsol, activity, ray) ==
    IF ~Ok(h) THEN h
    ELSE [h EXCEPT !.lpi.primsol = primsol, !.lpi.activity = activity, !.lpi.ray = ray]

\* the objective value decrease of the ray: the sum over the first i columns
\* of the LP solver
RECURSIVE RayObjval(_, _)
RayObjval(h, i) ==
    IF i = 0 THEN 0
    ELSE RayObjval(h, i - 1) + h.lpi.ray[i] * h.col[h.lp.lpicols[i]].obj

\* a scale that moves the objective value by set->infinity only
RayScaleOnce(rayobjval) == (-SetInfinity) \div rayobjval

\* the scale of the ray, such that the resulting point has infinite objective
\* value
RayScale(rayobjval) == (-2 * SetInfinity) \div rayobjval

\* the position of id in the sequence s of distinct elements
PosIn(s, id) == CHOOSE i \in 1..Len(s) : s[i] = id

\* the column of the unbounded point: x' = x + rayscale * ray
colUnboundedSol(h, c, rayscale) ==
    [h.col[c] EXCEPT !.primsol = RealAdd(h.lpi.primsol[PosIn(h.lp.lpicols, c)],
                                         rayscale * h.lpi.ray[PosIn(h.lp.lpicols, c)]),
                     !.redcost = SCIP_INVALID]

rowUnboundedSol(h, r) ==
    [h.row[r] EXCEPT !.dualsol = SCIP_INVALID,
                     !.activity = h.lpi.activity[PosIn(h.lp.lpirows, r)] + h.row[r].constant]

\* stores LP solution with infinite objective value in the columns and rows
SCIPlpGetUnboundedSol(h) ==
    IF ~Ok(h) THEN h
    ELSE [h EXCEPT
            !.lp.objval = -SetInfinity,
            !.col = [c \in ColIds |->
                        IF \E i \in 1..nlpicols(h) : h.lp.lpicols[i] = c
                        THEN colUnboundedSol(h, c, RayScale(RayObjval(h, nlpicols(h))))
                        ELSE h.col[c]],
            !.row = [r \in RowIds |->
                        IF \E i \in 1..nlpirows(h) : h.lp.lpirows[i] = r
                        THEN rowUnboundedSol(h, r)
                        ELSE h.row[r]]]

(* ------------------ linear constraints (cons_linear.c) ----------------- *)

\* cons holds the variables of the problem with their local bounds (var),
\* the fields of one linear constraint of the transformed problem (struct
\* LinCons), and the nchgbds, result and RETCODE of the last call.  Two
\* fields are not of the code: tried lists the positions the last
\* linconsTightenBounds() called linconsTightenVarBounds() for, exact is
\* FALSE once a quotient of two Reals was no integer (the model does not
\* follow the program beyond that).
VarIds == 1..NumVars

\* the variables with bounds [0, 8] and no linear constraint
NoCons ==
    [var |-> [x \in VarIds |-> [lb |-> 0, ub |-> 8, obj |-> IF x = 1 THEN 1 ELSE -1]],
     vars |-> <<>>, vals |-> <<>>, lhs |-> 0, rhs |-> 0,
     pseudoactivity |-> SCIP_INVALID, minactivity |-> SCIP_INVALID,
     maxactivity |-> SCIP_INVALID, minactivityinf |-> -1, maxactivityinf |-> -1,
     modifiable |-> FALSE, transformed |-> FALSE, validactivities |-> FALSE,
     nchgbds |-> 0, result |-> "DIDNOTRUN", rc |-> "OKAY", tried |-> <<>>, exact |-> TRUE]

\* linconsCreate() and linconsCreateTransformed(): the constraint of the
\* transformed problem with the given entries and sides
linconsCreateTransformed(k, consvars, consvals, lhs, rhs, modifiable) ==
    IF lhs > rhs THEN [k EXCEPT !.rc = "INVALIDDATA"]
    ELSE [k EXCEPT !.vars = consvars, !.vals = consvals, !.lhs = lhs, !.rhs = rhs,
                   !.modifiable = modifiable, !.transformed = TRUE]

\* updates minimum and maximum activity for a change in lower bound
linconsUpdateChgLb(k, x, oldlb, newlb, val) ==
    IF ~k.validactivities THEN k
    ELSE [k EXCEPT
            !.pseudoactivity = IF k.var[x].obj >= 0
                               THEN RealAdd(@, val * RealAdd(newlb, -oldlb))
                               ELSE @,
            !.minactivityinf = IF val > 0
                               THEN @ - InfinitePart(SCIPsetIsInfinity(-oldlb))
                                      + InfinitePart(SCIPsetIsInfinity(-newlb))
                               ELSE @,
            !.minactivity = IF val > 0
                            THEN @ - FinitePart(val, oldlb, SCIPsetIsInfinity(-oldlb))
                                   + FinitePart(val, newlb, SCIPsetIsInfinity(-newlb))
                            ELSE @,
            !.maxactivityinf = IF val > 0 THEN @
                               ELSE @ - InfinitePart(SCIPsetIsInfinity(-oldlb))
                                      + InfinitePart(SCIPsetIsInfinity(-newlb)),
            !.maxactivity = IF val > 0 THEN @
                            ELSE @ - FinitePart(val, oldlb, SCIPsetIsInfinity(-oldlb))
                                   + FinitePart(val, newlb, SCIPsetIsInfinity(-newlb))]

\* updates minimum and maximum activity for a change in upper bound
linconsUpdateChgUb(k, x, oldub, newub, val) ==
    IF ~k.validactivities THEN k
    ELSE [k EXCEPT
            !.pseudoactivity = IF k.var[x].obj < 0
                               THEN RealAdd(@, val * RealAdd(newub, -oldub))
                               ELSE @,
            !.maxactivityinf = IF val > 0
                               THEN @ - InfinitePart(SCIPsetIsInfinity(oldub))
                                      + InfinitePart(SCIPsetIsInfinity(newub))
                               ELSE @,
            !.maxactivity = IF val > 0
                            THEN @ - FinitePart(val, oldub, SCIPsetIsInfinity(oldub))
                                   + FinitePart(val, newub, SCIPsetIsInfinity(newub))
                            ELSE @,
            !.minactivityinf = IF val > 0 THEN @
                               ELSE @ - InfinitePart(SCIPsetIsInfinity(oldub))
                                      + InfinitePart(SCIPsetIsInfinity(newub)),
            !.minactivity = IF val > 0 THEN @
                            ELSE @ - FinitePart(val, oldub, SCIPsetIsInfinity(oldub))
                                   + FinitePart(val, newub, SCIPsetIsInfinity(newub))]

\* updates minimum and maximum activity for coefficient addition
linconsUpdateAddCoef(k, x, val) ==
    linconsUpdateChgUb(linconsUpdateChgLb(k, x, 0, k.var[x].lb, val), x, 0, k.var[x].ub, val)

\* the loop of linconsCalcActivities() from position i on
RECURSIVE linconsCalcActivitiesFrom(_, _)
linconsCalcActivitiesFrom(k, i) ==
    IF i >= Len(k.vars) THEN k
    ELSE linconsCalcActivitiesFrom(linconsUpdateAddCoef(k, k.vars[i + 1], k.vals[i + 1]), i + 1)

\* calculates pseudo activity, and minimum and maximum activity for constraint
linconsCalcActivities(k) ==
    linconsCalcActivitiesFrom(
        [k EXCEPT !.validactivities = TRUE, !.pseudoactivity = 0, !.minactivity = 0,
                  !.maxactivity = 0, !.minactivityinf = 0, !.maxactivityinf = 0], 0)

\* gets activity bounds for constraint after setting variable to zero: the
\* constraint after the call
linconsGetActivityResiduals(k) ==
    IF ~k.validactivities THEN linconsCalcActivities(k) ELSE k

\* the value linconsGetActivityResiduals() stores in *minresactivity for
\* variable x with coefficient val
LinconsMinResActivity(k, x, val) ==
    IF val > 0
    THEN Residual(SCIPsetIsInfinity(-k.var[x].lb), k.minactivityinf, k.minactivity, val,
                  k.var[x].lb, -SetInfinity)
    ELSE Residual(SCIPsetIsInfinity(k.var[x].ub), k.minactivityinf, k.minactivity, val,
                  k.var[x].ub, -SetInfinity)

\* the value linconsGetActivityResiduals() stores in *maxresactivity
LinconsMaxResActivity(k, x, val) ==
    IF val > 0
    THEN Residual(SCIPsetIsInfinity(k.var[x].ub), k.maxactivityinf, k.maxactivity, val,
                  k.var[x].ub, SetInfinity)
    ELSE Residual(SCIPsetIsInfinity(-k.var[x].lb), k.maxactivityinf, k.maxactivity, val,
                  k.var[x].lb, SetInfinity)

\* the bound change event handler of linear constraints, for the event that
\* position varpos of the constraint caught
eventExecLinear(k, varpos, boundtype, oldbound, newbound) ==
    IF boundtype = "LOWER"
    THEN linconsUpdateChgLb(k, k.vars[varpos + 1], oldbound, newbound, k.vals[varpos + 1])
    ELSE linconsUpdateChgUb(k, k.vars[varpos + 1], oldbound, newbound, k.vals[varpos + 1])

\* the bound change events of variable x: every position of the constraint
\* that holds x has caught them (linconsCatchEvent), from position i on
RECURSIVE varEventBoundChanged(_, _, _, _, _, _)
varEventBoundChanged(k, x, i, boundtype, oldbound, newbound) ==
    IF i >= Len(k.vars) THEN k
    ELSE varEventBoundChanged(
             IF k.vars[i + 1] = x THEN eventExecLinear(k, i, boundtype, oldbound, newbound)
             ELSE k,
             x, i + 1, boundtype, oldbound, newbound)

\* SCIPchgVarLb(): the local lower bound of variable x becomes newbound and
\* the bound change event is processed
SCIPchgVarLb(k, x, newbound) ==
    varEventBoundChanged([k EXCEPT !.var[x].lb = newbound], x, 0, "LOWER", k.var[x].lb, newbound)

\* SCIPchgVarUb(): the local upper bound of variable x becomes newbound
SCIPchgVarUb(k, x, newbound) ==
    varEventBoundChanged([k EXCEPT !.var[x].ub = newbound], x, 0, "UPPER", k.var[x].ub, newbound)

\* the quotient a / b of two Reals, for a divisor that divides the dividend
RealDiv(a, b) == IF b > 0 THEN a \div b ELSE (-a) \div (-b)

RealDivides(b, a) == a % Abs(b) = 0

\* an upper bound that is set to the candidate even if this crosses the
\* lower bound
linconsTightenUbCrossing(k, x, newub) ==
    IF newub < k.var[x].ub
    THEN [SCIPchgVarUb(k, x, newub) EXCEPT !.nchgbds = @ + 1, !.result = "REDUCEDDOM"]
    ELSE k

\* an upper bound that is set to every candidate that does not cross the
\* lower bound
linconsTightenUbAlways(k, x, newub) ==
    IF newub < k.var[x].lb THEN [k EXCEPT !.result = "CUTOFF"]
    ELSE [SCIPchgVarUb(k, x, newub) EXCEPT !.nchgbds = @ + 1, !.result = "REDUCEDDOM"]

\* linconsTightenVarBounds(): the candidate newub for the upper bound of
\* variable x is looked at
linconsTightenUb(k, x, newub) ==
    IF newub < k.var[x].ub
    THEN IF newub < k.var[x].lb THEN [k EXCEPT !.result = "CUTOFF"]
         ELSE [SCIPchgVarUb(k, x, newub) EXCEPT !.nchgbds = @ + 1, !.result = "REDUCEDDOM"]
    ELSE k

\* linconsTightenVarBounds(): the candidate newlb for the lower bound of
\* variable x is looked at
linconsTightenLb(k, x, newlb) ==
    IF newlb > k.var[x].lb
    THEN IF newlb > k.var[x].ub THEN [k EXCEPT !.result = "CUTOFF"]
         ELSE [SCIPchgVarLb(k, x, newlb) EXCEPT !.nchgbds = @ + 1, !.result = "REDUCEDDOM"]
    ELSE k

\* the candidate num / val becomes the upper bound (val > 0) or the lower
\* bound (val < 0) of variable x, if it is tighter
linconsTightenFromRhs(k, x, val, num) ==
    IF ~RealDivides(val, num) THEN [k EXCEPT !.exact = FALSE]
    ELSE IF val > 0 THEN linconsTightenUb(k, x, RealDiv(num, val))
    ELSE linconsTightenLb(k, x, RealDiv(num, val))

\* the candidate num / val becomes the lower bound (val > 0) or the upper
\* bound (val < 0) of variable x, if it is tighter
linconsTightenFromLhs(k, x, val, num) ==
    IF ~RealDivides(val, num) THEN [k EXCEPT !.exact = FALSE]
    ELSE IF val > 0 THEN linconsTightenLb(k, x, RealDiv(num, val))
    ELSE linconsTightenUb(k, x, RealDiv(num, val))

\* the first half of the two branches of linconsTightenVarBounds(): the
\* bound that the right hand side and the minimal residual activity give
linconsTightenFirst(k, x, val, minresactivity) ==
    IF ~SCIPsetIsInfinity(-minresactivity) /\ ~SCIPsetIsInfinity(k.rhs)
    THEN linconsTightenFromRhs(k, x, val, k.rhs - minresactivity)
    ELSE k

\* the second half: the bound that the left hand side and the maximal
\* residual activity give; not reached after the return with SCIP_CUTOFF
linconsTightenSecond(k, x, val, maxresactivity) ==
    IF k.result = "CUTOFF" \/ ~k.exact THEN k
    ELSE IF ~SCIPsetIsInfinity(maxresactivity) /\ ~SCIPsetIsInfinity(-k.lhs)
    THEN linconsTightenFromLhs(k, x, val, k.lhs - maxresactivity)
    ELSE k

\* linconsTightenVarBounds() after linconsGetActivityResiduals()
linconsTightenVar(k, x, val) ==
    linconsTightenSecond(linconsTightenFirst(k, x, val, LinconsMinResActivity(k, x, val)),
                         x, val, LinconsMaxResActivity(k, x, val))

\* tightens bounds of a single variable due to activity bounds: the
\* variable at position v of the constraint
linconsTightenVarBounds(k, v) ==
    linconsTightenVar(linconsGetActivityResiduals(k), k.vars[v + 1], k.vals[v + 1])

\* the position after v in the cycle through the constraint
NextPos(k, v) == IF v + 1 = Len(k.vars) THEN 0 ELSE v + 1

\* a last success that is moved to position v by every call
LastSuccessEveryCall(k, lastnchgbds, v, lastsuccess) == v

\* the position of the last success after the call for position v
LastSuccess(k, lastnchgbds, v, lastsuccess) ==
    IF k.nchgbds > lastnchgbds THEN v ELSE lastsuccess

\* the condition of the do-while loop of linconsTightenBounds() after the
\* call for position v
linconsTightenGoesOn(k, lastnchgbds, v, lastsuccess) ==
    NextPos(k, v) # LastSuccess(k, lastnchgbds, v, lastsuccess) /\ k.result # "CUTOFF"

\* what is noted of the call for position v that left the constraint as k
TriedCall(k, lastnchgbds, v) ==
    [v |-> v, success |-> k.nchgbds > lastnchgbds, cutoff |-> k.result = "CUTOFF"]

RECURSIVE linconsTightenLoop(_, _, _)

\* the end of one pass of the loop: k is the constraint after the call for
\* position v, lastnchgbds the number of changed bounds before it
linconsTightenNext(k, lastnchgbds, v, lastsuccess) ==
    IF linconsTightenGoesOn(k, lastnchgbds, v, lastsuccess) /\ k.exact
    THEN linconsTightenLoop(
             [k EXCEPT !.tried = Append(@, TriedCall(k, lastnchgbds, v))],
             NextPos(k, v), LastSuccess(k, lastnchgbds, v, lastsuccess))
    ELSE [k EXCEPT !.tried = Append(@, TriedCall(k, lastnchgbds, v))]

\* one pass of the do-while loop of linconsTightenBounds() for position v
linconsTightenLoop(k, v, lastsuccess) ==
    linconsTightenNext(linconsTightenVarBounds(k, v), k.nchgbds, v, lastsuccess)

\* tightens variable's bounds due to activity bounds
linconsTightenBounds(k) ==
    IF k.modifiable THEN k
    ELSE IF Len(k.vars) > 0 THEN linconsTightenLoop(k, 0, 0)
    ELSE k

\* the caller of a propagation: nchgbds = 0, *result = SCIP_DIDNOTFIND
\* (consPropLinear)
consPropStart(k) == [k EXCEPT !.nchgbds = 0, !.result = "DIDNOTFIND", !.tried = <<>>]

(* ----------------------- constraint handlers (cons.c) ------------------ *)

\* hdlr holds one constraint handler (struct ConsHdlr, field conshdlr) and
\* its constraints (struct Cons, field cons).  sepaconss and enfoconss are
\* the slots below nsepaconss and nenfoconss.  conssepa and consenfo are
\* what the last call of SCIPconshdlrSeparate() and of
\* SCIPconshdlrEnforceLPSol() did with the callback: called, and with which
\* constraints.  Two fields are not of the code: sepanew and enfonew hold
\* the constraints with separate and with enforce that were activated since
\* the last separation (enforcement) call or reset and are still active.
NumConss == 3

HdlrConsIds == 1..NumConss

nsepaconss(g) == Len(g.conshdlr.sepaconss)

nenfoconss(g) == Len(g.conshdlr.enfoconss)

\* SCIPconshdlrCreate() with callbacks for separation and enforcement
SCIPconshdlrCreate(needscons) ==
    [conshdlr |-> [sepaconss |-> <<>>, enfoconss |-> <<>>, nconss |-> 0,
                   lastnsepaconss |-> 0, lastnenfoconss |-> 0, needscons |-> needscons],
     cons |-> [i \in HdlrConsIds |->
                  [created |-> FALSE, active |-> FALSE, separate |-> FALSE, enforce |-> FALSE,
                   sepaconsspos |-> -1, enfoconsspos |-> -1]],
     conssepa |-> [called |-> FALSE, conss |-> <<>>],
     consenfo |-> [called |-> FALSE, conss |-> <<>>],
     sepanew |-> {}, enfonew |-> {}]

NoHdlr == SCIPconshdlrCreate(FALSE)

\* SCIPconsCreate(): constraint i of the handler, not active
SCIPconsCreate(g, i, separate, enforce) ==
    [g EXCEPT !.cons[i] = [created |-> TRUE, active |-> FALSE, separate |-> separate,
                           enforce |-> enforce, sepaconsspos |-> -1, enfoconsspos |-> -1]]

\* conshdlrAddCons(): add constraint to the separation array
AddSepaCons(g, i) ==
    IF g.cons[i].separate
    THEN [g EXCEPT !.cons[i].sepaconsspos = nsepaconss(g),
                   !.conshdlr.sepaconss = Append(@, i)]
    ELSE g

\* conshdlrAddCons(): add constraint to the enforcement array
AddEnfoCons(g, i) ==
    IF g.cons[i].enforce
    THEN [g EXCEPT !.cons[i].enfoconsspos = nenfoconss(g),
                   !.conshdlr.enfoconss = Append(@, i)]
    ELSE g

\* activates and adds constraint to constraint handler's constraint arrays
conshdlrAddCons(g, i) ==
    AddEnfoCons(AddSepaCons([g EXCEPT !.cons[i].active = TRUE, !.conshdlr.nconss = @ + 1], i), i)

\* the array without the slot delpos: the last slot is moved to delpos
DelSlot(conss, delpos) ==
    Front([conss EXCEPT ![delpos + 1] = conss[Len(conss)]])

\* conshdlrDelCons(): delete constraint from the separation array; the
\* position of the moved constraint is set before that of the deleted one
DelSepaCons(g, i) ==
    IF g.cons[i].separate
    THEN [g EXCEPT !.conshdlr.sepaconss = DelSlot(@, g.cons[i].sepaconsspos),
                   !.cons[g.conshdlr.sepaconss[nsepaconss(g)]].sepaconsspos =
                       g.cons[i].sepaconsspos,
                   !.cons[i].sepaconsspos = -1]
    ELSE g

\* conshdlrDelCons(): delete constraint from the enforcement array
DelEnfoCons(g, i) ==
    IF g.cons[i].enforce
    THEN [g EXCEPT !.conshdlr.enfoconss = DelSlot(@, g.cons[i].enfoconsspos),
                   !.cons[g.conshdlr.enfoconss[nenfoconss(g)]].enfoconsspos =
                       g.cons[i].enfoconsspos,
                   !.cons[i].enfoconsspos = -1]
    ELSE g

\* deactivates and removes constraint from constraint handler's conss array
conshdlrDelCons(g, i) ==
    [DelEnfoCons(DelSepaCons(g, i), i) EXCEPT !.cons[i].active = FALSE,
                                              !.conshdlr.nconss = @ - 1]

\* activates constraint
SCIPconsActivate(g, i) == conshdlrAddCons(g, i)

\* deactivates constraint
SCIPconsDeactivate(g, i) == conshdlrDelCons(g, i)

\* the slots of an array from position first up to its count
SlotsFrom(conss, first) == SubSeq(conss, first + 1, Len(conss))

\* calls separator method of constraint handler to separate all constraints
\* added after last conshdlrResetSepa() call
SCIPconshdlrSeparate(g) ==
    IF ~g.conshdlr.needscons \/ nsepaconss(g) - g.conshdlr.lastnsepaconss > 0
    THEN [g EXCEPT !.conssepa = [called |-> TRUE,
                                 conss |-> SlotsFrom(g.conshdlr.sepaconss,
                                                     g.conshdlr.lastnsepaconss)],
                   !.conshdlr.lastnsepaconss = nsepaconss(g)]
    ELSE [g EXCEPT !.conssepa = [called |-> FALSE, conss |-> <<>>]]

\* calls enforcing method of constraint handler for LP solution for all
\* constraints added after last conshdlrResetEnfo() call
SCIPconshdlrEnforceLPSol(g) ==
    IF ~g.conshdlr.needscons \/ nenfoconss(g) - g.conshdlr.lastnenfoconss > 0
    THEN [g EXCEPT !.consenfo = [called |-> TRUE,
                                 conss |-> SlotsFrom(g.conshdlr.enfoconss,
                                                     g.conshdlr.lastnenfoconss)],
                   !.conshdlr.lastnenfoconss = nenfoconss(g)]
    ELSE [g EXCEPT !.consenfo = [called |-> FALSE, conss |-> <<>>]]

\* resets separation to start with first constraint in the next call
SCIPconshdlrResetSepa(g) == [g EXCEPT !.conshdlr.lastnsepaconss = 0]

\* resets enforcement to start with first constraint in the next call
SCIPconshdlrResetEnfo(g) == [g EXCEPT !.conshdlr.lastnenfoconss = 0]

(* --------------------------- the state machine ------------------------ *)

\* SCIPcolCreate() with no coefficients, for the variable with bounds [0, 3]
NewCol(c) ==
    [rows |-> <<>>, vals |-> <<>>, linkpos |-> <<>>, nunlinked |-> 0, sorted |-> TRUE,
     lppos |-> -1, lpipos |-> -1, lbchanged |-> FALSE, ubchanged |-> FALSE,
     coefchanged |-> FALSE, lb |-> 0, ub |-> 3, obj |-> IF c = 1 THEN 1 ELSE -1,
     primsol |-> 0, redcost |-> SCIP_INVALID, index |-> c]

\* SCIProwCreate() with no coefficients and sides [0, 7], captured by its
\* creator; row 1 is unmodifiable (it can be locked), the others are modifiable.
\* held is not a field of the code: it counts the uses of the row that its
\* creator and its capturers hold, the use of the LP not included
NewRow(r) ==
    [cols |-> <<>>, vals |-> <<>>, linkpos |-> <<>>, nunlinked |-> 0, sorted |-> TRUE,
     lppos |-> -1, lpipos |-> -1, lhschanged |-> FALSE, rhschanged |-> FALSE,
     coefchanged |-> FALSE, lhs |-> 0, rhs |-> 7, constant |-> 0, nuses |-> 1, nlocks |-> 0,
     modifiable |-> (r > 1), validpsactivity |-> FALSE, validactivitybds |-> FALSE,
     minactivityinf |-> -1, maxactivityinf |-> -1, minactivity |-> SCIP_INVALID,
     maxactivity |-> SCIP_INVALID, pseudoactivity |-> SCIP_INVALID, dualsol |-> 0,
     activity |-> SCIP_INVALID, held |-> 1]

\* the entries of a vector are in strictly increasing index order: the loop
\* at the end of SCIPcolCreate() and the loop of rowCalcNorms()
IsSortedVec(ents) == \A i \in 2..Len(ents) : ents[i - 1] < ents[i]

\* creates an LP column with the entries ents, vals. The loop that is meant
\* to mark the entries unlinked writes (*row)->linkpos[i], the link array of
\* the first row of ents; the link array of the column stays as allocated,
\* junk is what the memory holds
SCIPcolCreate(h, c, ents, vals, junk) ==
    LET fst == IF Len(ents) > 0 THEN ents[1] ELSE 0
        h1 == IF Len(ents) > 0
              THEN [h EXCEPT !.row[fst].linkpos = AsSeqUpTo(
                       [j \in 1..Len(h.row[fst].linkpos) |->
                           IF j <= Len(ents) THEN -1 ELSE h.row[fst].linkpos[j]],
                       Len(h.row[fst].linkpos))]
              ELSE h
    IN  [h1 EXCEPT !.col[c] = [h.col[c] EXCEPT !.rows = ents, !.vals = vals,
                                               !.linkpos = AsSeqUpTo(junk, Len(ents)),
                                               !.nunlinked = Len(ents), !.lppos = -1,
                                               !.lpipos = -1, !.sorted = IsSortedVec(ents),
                                               !.lbchanged = FALSE, !.ubchanged = FALSE,
                                               !.coefchanged = FALSE, !.primsol = 0,
                                               !.redcost = SCIP_INVALID, !.index = c]]

\* creates and captures an LP row with the entries ents, vals; lhs <= rhs is
\* an assert(): a build with assertions stops the program on lhs > rhs, a
\* build without them (ndebug) creates the row
SCIProwCreate(h, r, ents, vals, lhs, rhs, ndebug) ==
    IF lhs > rhs /\ ~ndebug THEN Fail(h, "ABORT")
    ELSE SCIProwCapture(
             [h EXCEPT !.row[r] =
                 [NewRow(r) EXCEPT !.cols = ents, !.vals = vals,
                                   !.linkpos = AsSeqUpTo([j \in 1..Len(ents) |-> -1], Len(ents)),
                                   !.nunlinked = Len(ents), !.lhs = lhs, !.rhs = rhs,
                                   !.nuses = 0, !.sorted = IsSortedVec(ents)]], r)

\* SCIPlpCreate(): an empty LP, flushed and solved to optimality with value 0
SCIPlpCreate ==
    SCIPlpSetFeastol(
        [col |-> [c \in ColIds |-> NewCol(c)],
         row |-> [r \in RowIds |-> NewRow(r)],
         lp |-> [cols |-> <<>>, rows |-> <<>>, lpicols |-> <<>>, lpirows |-> <<>>,
                 chgcols |-> <<>>, chgrows |-> <<>>, lpifirstchgcol |-> 0, lpifirstchgrow |-> 0,
                 firstnewcol |-> 0, firstnewrow |-> 0, flushed |-> TRUE, solved |-> TRUE,
                 primalfeasible |-> TRUE, dualfeasible |-> TRUE, lpsolstat |-> "OPTIMAL",
                 objval |-> 0],
         lpi |-> [cols |-> <<>>, rows |-> <<>>, coef |-> {}, solstat |-> "none", objval |-> 0,
                  primsol |-> <<>>, activity |-> <<>>, ray |-> <<>>],
         rc |-> "OKAY", log |-> <<>>])

Init ==
    /\ col = SCIPlpCreate.col
    /\ row = SCIPlpCreate.row
    /\ lp = SCIPlpCreate.lp
    /\ lpi = SCIPlpCreate.lpi
    /\ rc = SCIPlpCreate.rc
    /\ log = SCIPlpCreate.log
    /\ op = [name |-> "SCIPlpCreate", c |-> 0, r |-> 0]
    /\ nops = 0
    /\ cons = NoCons
    /\ hdlr = NoHdlr

\* one operation was carried out on the heap and left it as h
Done(h, name, c, r) ==
    /\ nops < MaxOps
    /\ col' = h.col
    /\ row' = h.row
    /\ lp' = h.lp
    /\ lpi' = h.lpi
    /\ rc' = h.rc
    /\ log' = h.log
    /\ op' = [name |-> name, c |-> c, r |-> r]
    /\ nops' = nops + 1
    /\ cons' = cons
    /\ hdlr' = hdlr

InCol(c, r) == \E i \in 1..Len(col[c].rows) : col[c].rows[i] = r

InRow(r, c) == \E i \in 1..Len(row[r].cols) : row[r].cols[i] = c

ColAddCoeff ==
    \E c \in ColIds, r \in RowIds, v \in AddVals :
        /\ ~InCol(c, r) /\ ~InRow(r, c)
        /\ Done(SCIPcolAddCoeff(Heap, c, r, v), "SCIPcolAddCoeff", c, r)

ColDelCoeff ==
    \E c \in ColIds, r \in RowIds :
        /\ InCol(c, r) \/ InRow(r, c)
        /\ Done(SCIPcolDelCoeff(Heap, c, r), "SCIPcolDelCoeff", c, r)

ColChgCoeff ==
    \E c \in ColIds, r \in RowIds, v \in ChgVals :
        /\ InCol(c, r)
        /\ Done(SCIPcolChgCoeff(Heap, c, r, v), "SCIPcolChgCoeff", c, r)

RowAddCoeff ==
    \E r \in RowIds, c \in ColIds, v \in AddVals :
        /\ ~InCol(c, r) /\ ~InRow(r, c)
        /\ Done(SCIProwAddCoeff(Heap, r, c, v), "SCIProwAddCoeff", c, r)

RowDelCoeff ==
    \E r \in RowIds, c \in ColIds :
        /\ InCol(c, r) \/ InRow(r, c)
        /\ Done(SCIProwDelCoeff(Heap, r, c), "SCIProwDelCoeff", c, r)

RowChgCoeff ==
    \E r \in RowIds, c \in ColIds, v \in ChgVals :
        /\ InRow(r, c)
        /\ Done(SCIProwChgCoeff(Heap, r, c, v), "SCIProwChgCoeff", c, r)

\* the variable of the column gets a new lower bound and notifies the column
ColChgLb ==
    \E c \in ColIds : \E v \in LbVals \ {col[c].lb} :
        Done(SCIPcolBoundChanged([Heap EXCEPT !.col[c].lb = v], c, "LOWER", col[c].lb, v, TRUE),
             "ChgLb", c, 0)

\* the variable of the column gets a new upper bound and notifies the column
ColChgUb ==
    \E c \in ColIds : \E v \in UbVals \ {col[c].ub} :
        Done(SCIPcolBoundChanged([Heap EXCEPT !.col[c].ub = v], c, "UPPER", col[c].ub, v, TRUE),
             "ChgUb", c, 0)

RowChgLhs ==
    \E r \in RowIds, v \in LhsVals : Done(SCIProwChgLhs(Heap, r, v), "SCIProwChgLhs", 0, r)

RowChgRhs ==
    \E r \in RowIds, v \in RhsVals : Done(SCIProwChgRhs(Heap, r, v), "SCIProwChgRhs", 0, r)

RowLock ==
    \E r \in RowIds :
        /\ row[r].nlocks < MaxLocks
        /\ Done(SCIProwLock(Heap, r), "SCIProwLock", 0, r)

RowUnlock == \E r \in RowIds : Done(SCIProwUnlock(Heap, r), "SCIProwUnlock", 0, r)

LpAddCol ==
    \E c \in ColIds :
        /\ col[c].lppos = -1
        /\ Done(SCIPlpAddCol(Heap, c), "SCIPlpAddCol", c, 0)

LpAddRow ==
    \E r \in RowIds :
        /\ row[r].lppos = -1
        /\ Done(SCIPlpAddRow(Heap, r), "SCIPlpAddRow", 0, r)

LpShrinkCols ==
    \E n \in 0..Len(lp.cols) : Done(SCIPlpShrinkCols(Heap, n), "SCIPlpShrinkCols", 0, 0)

LpShrinkRows ==
    \E n \in 0..Len(lp.rows) : Done(SCIPlpShrinkRows(Heap, n), "SCIPlpShrinkRows", 0, 0)

LpFlush == Done(lpFlush(Heap), "lpFlush", 0, 0)

LpSetState == Done(SCIPlpSetState(Heap), "SCIPlpSetState", 0, 0)

LpSetFeastol == Done(SCIPlpSetFeastol(Heap), "SCIPlpSetFeastol", 0, 0)

\* what the simplex can end with: a termination signal and an objective value
SolveOutcomes == {[sig |-> s, obj |-> o] : s \in Signals, o \in ObjVals}

LpSolvePrimal ==
    \E o \in SolveOutcomes : Done(SCIPlpSolvePrimal(Heap, o.sig, o.obj), "SCIPlpSolvePrimal", 0, 0)

LpSolveDual ==
    \E o \in SolveOutcomes : Done(SCIPlpSolveDual(Heap, o.sig, o.obj), "SCIPlpSolveDual", 0, 0)

Next ==
    \/ ColAddCoeff \/ ColDelCoeff \/ ColChgCoeff
    \/ RowAddCoeff \/ RowDelCoeff \/ RowChgCoeff
    \/ ColChgLb \/ ColChgUb \/ RowChgLhs \/ RowChgRhs
    \/ RowLock \/ RowUnlock
    \/ LpAddCol \/ LpAddRow \/ LpShrinkCols \/ LpShrinkRows
    \/ LpFlush \/ LpSetState \/ LpSetFeastol
    \/ LpSolvePrimal \/ LpSolveDual

Spec == Init /\ [][Next]_vars

(* ------------------ the state machine of the matrix ------------------- *)
(* The columns, the rows and the doubly linked coefficient matrix with     *)
(* creation, capture and release, linking and unlinking.  A row exists     *)
(* while nuses >= 1.  Indices are given in creation order, so a row or a   *)
(* column is created only while no row or column with a larger number      *)
(* exists.  A column that is still to be created has index -1.             *)

MatMaxOps == 6

\* the entries a column or row is created with
CreateEnts == {<<>>, <<1>>, <<1, 2>>, <<2, 1>>}

\* the values a coefficient is increased by
IncVals == {-1, 1}

\* what the link array of a new column holds before it is written: the
\* unlinked mark or the position 0
JunkVals == {-1, 0}

\* the sides a row is created with
CreateLhsVals == {0, 8}

RowExists(r) == row[r].nuses >= 1

ColExists(c) == col[c].index >= 0

\* checkLinks() extended to every column and row: each link position that is
\* not -1 points at an entry of the opposite vector that names the owner
LinksInRange ==
    /\ \A c \in ColIds : \A i \in 1..Len(col[c].rows) :
           IF col[c].linkpos[i] = -1 THEN TRUE
           ELSE /\ col[c].linkpos[i] < Len(row[col[c].rows[i]].cols)
                /\ row[col[c].rows[i]].cols[col[c].linkpos[i] + 1] = c
    /\ \A r \in RowIds : \A i \in 1..Len(row[r].cols) :
           IF row[r].linkpos[i] = -1 THEN TRUE
           ELSE /\ row[r].linkpos[i] < Len(col[row[r].cols[i]].rows)
                /\ col[row[r].cols[i]].rows[row[r].linkpos[i] + 1] = r

\* one operation of the matrix was carried out and left the heap as h; a
\* stopped program is not followed
MatStep(h, name, c, r) ==
    /\ nops < MatMaxOps
    /\ rc # "ABORT"
    /\ col' = h.col
    /\ row' = h.row
    /\ lp' = h.lp
    /\ lpi' = h.lpi
    /\ rc' = h.rc
    /\ log' = h.log
    /\ op' = [name |-> name, c |-> c, r |-> r]
    /\ nops' = nops + 1
    /\ cons' = cons
    /\ hdlr' = hdlr

\* an operation that follows link positions: a program with a wild link
\* position is not followed through it
MatDone(h, name, c, r) ==
    /\ LinksInRange
    /\ MatStep(h, name, c, r)

MatInit ==
    /\ col = [c \in ColIds |-> [SCIPlpCreate.col[c] EXCEPT !.index = -1]]
    /\ row = [r \in RowIds |-> [SCIPlpCreate.row[r] EXCEPT !.nuses = 0, !.held = 0]]
    /\ lp = SCIPlpCreate.lp
    /\ lpi = SCIPlpCreate.lpi
    /\ rc = SCIPlpCreate.rc
    /\ log = SCIPlpCreate.log
    /\ op = [name |-> "SCIPlpCreate", c |-> 0, r |-> 0]
    /\ nops = 0
    /\ cons = NoCons
    /\ hdlr = NoHdlr

MatColCreate ==
    \E c \in ColIds, ents \in CreateEnts :
        \E junk \in [1..Len(ents) -> JunkVals] :
            /\ \A d \in ColIds : d >= c => ~ColExists(d)
            /\ \A i \in 1..Len(ents) : RowExists(ents[i])
            /\ MatDone(SCIPcolCreate(Heap, c, ents, SubSeq(<<1, 1>>, 1, Len(ents)), junk),
                       "SCIPcolCreate", c, 0)

MatRowCreate ==
    \E r \in RowIds, ents \in CreateEnts, lhs \in CreateLhsVals, ndebug \in BOOLEAN :
        /\ \A q \in RowIds : q >= r => ~RowExists(q)
        /\ \A c \in ColIds : ~InCol(c, r)
        /\ \A i \in 1..Len(ents) : ColExists(ents[i])
        /\ lhs <= 7 => ndebug
        /\ MatDone([SCIProwCreate(Heap, r, ents, SubSeq(<<1, 1>>, 1, Len(ents)), lhs, 7, ndebug)
                        EXCEPT !.row[r].held = IF lhs > 7 /\ ~ndebug THEN 0 ELSE 1],
                   "SCIProwCreate", 0, r)

MatColAddCoeff ==
    \E c \in ColIds, r \in RowIds, v \in AddVals :
        /\ ColExists(c) /\ RowExists(r)
        /\ ~InCol(c, r) /\ ~InRow(r, c)
        /\ MatDone(SCIPcolAddCoeff(Heap, c, r, v), "SCIPcolAddCoeff", c, r)

MatColDelCoeff ==
    \E c \in ColIds, r \in RowIds :
        /\ ColExists(c) /\ RowExists(r)
        /\ MatDone(SCIPcolDelCoeff(Heap, c, r), "SCIPcolDelCoeff", c, r)

MatColChgCoeff ==
    \E c \in ColIds, r \in RowIds, v \in ChgVals :
        /\ ColExists(c) /\ RowExists(r)
        /\ InCol(c, r) \/ (v # 0 /\ ~InRow(r, c))
        /\ MatDone(SCIPcolChgCoeff(Heap, c, r, v), "SCIPcolChgCoeff", c, r)

MatColIncCoeff ==
    \E c \in ColIds, r \in RowIds, v \in IncVals :
        /\ ColExists(c) /\ RowExists(r)
        /\ InCol(c, r) \/ ~InRow(r, c)
        /\ MatDone(SCIPcolIncCoeff(Heap, c, r, v), "SCIPcolIncCoeff", c, r)

MatRowAddCoeff ==
    \E r \in RowIds, c \in ColIds, v \in AddVals :
        /\ ColExists(c) /\ RowExists(r)
        /\ ~InCol(c, r) /\ ~InRow(r, c)
        /\ MatDone(SCIProwAddCoeff(Heap, r, c, v), "SCIProwAddCoeff", c, r)

MatRowDelCoeff ==
    \E r \in RowIds, c \in ColIds :
        /\ ColExists(c) /\ RowExists(r)
        /\ MatDone(SCIProwDelCoeff(Heap, r, c), "SCIProwDelCoeff", c, r)

MatRowChgCoeff ==
    \E r \in RowIds, c \in ColIds, v \in ChgVals :
        /\ ColExists(c) /\ RowExists(r)
        /\ InRow(r, c) \/ (v # 0 /\ ~InCol(c, r))
        /\ MatDone(SCIProwChgCoeff(Heap, r, c, v), "SCIProwChgCoeff", c, r)

\* colLink() of a column with an entry to link; it compares the link
\* positions of the column with -1 and follows none
MatColLink ==
    \E c \in ColIds :
        /\ col[c].nunlinked > 0
        /\ \A i \in 1..Len(col[c].rows) : RowExists(col[c].rows[i])
        /\ MatStep(colLink(Heap, c), "colLink", c, 0)

\* rowLink() of a row with an entry to link
MatRowLink ==
    \E r \in RowIds :
        /\ RowExists(r)
        /\ row[r].nunlinked > 0
        /\ MatDone(rowLink(Heap, r), "rowLink", 0, r)

\* colUnlink() of a column with a linked entry
MatColUnlink ==
    \E c \in ColIds :
        /\ col[c].nunlinked < Len(col[c].rows)
        /\ MatDone(colUnlink(Heap, c), "colUnlink", c, 0)

\* a holder takes one more use of the row
MatRowCapture ==
    \E r \in RowIds :
        /\ RowExists(r)
        /\ row[r].held < 2
        /\ MatDone([SCIProwCapture(Heap, r) EXCEPT !.row[r].held = row[r].held + 1],
                   "SCIProwCapture", 0, r)

\* a holder gives back a use it holds
MatRowRelease ==
    \E r \in RowIds :
        /\ RowExists(r)
        /\ row[r].held >= 1
        /\ row[r].nlocks < row[r].nuses
        /\ MatDone(SCIProwRelease([Heap EXCEPT !.row[r].held = row[r].held - 1], r),
                   "SCIProwRelease", 0, r)

MatRowLock ==
    \E r \in RowIds :
        /\ RowExists(r)
        /\ row[r].nlocks < MaxLocks
        /\ MatDone(SCIProwLock(Heap, r), "SCIProwLock", 0, r)

MatLpAddRow ==
    \E r \in RowIds :
        /\ RowExists(r)
        /\ row[r].lppos = -1
        /\ MatDone(SCIPlpAddRow(Heap, r), "SCIPlpAddRow", 0, r)

MatLpShrinkRows ==
    \E n \in 0..Len(lp.rows) :
        /\ n < Len(lp.rows)
        /\ \A i \in (n + 1)..Len(lp.rows) : row[lp.rows[i]].nlocks < row[lp.rows[i]].nuses
        /\ MatDone(SCIPlpShrinkRows(Heap, n), "SCIPlpShrinkRows", 0, 0)

MatNext ==
    \/ MatColCreate \/ MatRowCreate
    \/ MatColAddCoeff \/ MatColDelCoeff \/ MatColChgCoeff \/ MatColIncCoeff
    \/ MatRowAddCoeff \/ MatRowDelCoeff \/ MatRowChgCoeff
    \/ MatColLink \/ MatRowLink \/ MatColUnlink
    \/ MatRowCapture \/ MatRowRelease \/ MatRowLock
    \/ MatLpAddRow \/ MatLpShrinkRows

MatSpec == MatInit /\ [][MatNext]_vars

(* ---------------- the state machine of the activities ------------------ *)
(* Columns and rows are created, the bounds of the variables change, the   *)
(* activities of the rows are asked for and coefficients of the rows       *)
(* change.  The variable of column c starts with the bounds [0, 5 * c].    *)

\* the entries a row is created with
ActRowEnts == {<<1>>, <<1, 2>>}

\* the entries a column is created with
ActColEnts == {<<>>, <<1>>}

\* the coefficient of column c in a created row, up to the sign sgn
ActCoef(c, sgn) == IF c = 1 THEN 2 * sgn ELSE -sgn

\* the lower and upper bounds the variables are moved to
ActLbVals == {-SetInfinity, 0, 3}

ActUbVals == {5, 10, SetInfinity}

\* every link position of column c that is not negative is a position of
\* the row of the entry
ColLinksInRows(c) ==
    \A i \in 1..Len(col[c].rows) : col[c].linkpos[i] < Len(row[col[c].rows[i]].cols)

ActInit ==
    /\ col = [c \in ColIds |-> [SCIPlpCreate.col[c] EXCEPT !.index = -1, !.lb = 0, !.ub = 5 * c]]
    /\ row = [r \in RowIds |-> [SCIPlpCreate.row[r] EXCEPT !.nuses = 0, !.held = 0]]
    /\ lp = SCIPlpCreate.lp
    /\ lpi = SCIPlpCreate.lpi
    /\ rc = SCIPlpCreate.rc
    /\ log = SCIPlpCreate.log
    /\ op = [name |-> "SCIPlpCreate", c |-> 0, r |-> 0]
    /\ nops = 0
    /\ cons = NoCons
    /\ hdlr = NoHdlr

ActColCreate ==
    \E c \in ColIds, ents \in ActColEnts :
        \E junk \in [1..Len(ents) -> JunkVals] :
            /\ \A d \in ColIds : d >= c => ~ColExists(d)
            /\ \A i \in 1..Len(ents) : RowExists(ents[i])
            /\ MatDone(SCIPcolCreate(Heap, c, ents, SubSeq(<<1, 1>>, 1, Len(ents)), junk),
                       "SCIPcolCreate", c, 0)

ActRowCreate ==
    \E r \in RowIds, ents \in ActRowEnts, sgn \in {-1, 1} :
        /\ \A q \in RowIds : q >= r => ~RowExists(q)
        /\ \A c \in ColIds : ~InCol(c, r)
        /\ \A i \in 1..Len(ents) : ColExists(ents[i])
        /\ MatDone(SCIProwCreate(Heap, r, ents,
                                 AsSeqUpTo([i \in 1..Len(ents) |-> ActCoef(ents[i], sgn)], Len(ents)),
                                 0, 7, TRUE),
                   "SCIProwCreate", 0, r)

\* the variable of the column gets a new lower bound and notifies the column
ActChgLb ==
    \E c \in ColIds, ndebug \in BOOLEAN : \E v \in ActLbVals \ {col[c].lb} :
        /\ ColExists(c)
        /\ ColLinksInRows(c)
        /\ v <= col[c].ub
        /\ MatStep(SCIPcolBoundChanged([Heap EXCEPT !.col[c].lb = v], c, "LOWER", col[c].lb, v,
                                       ndebug),
                   "ChgLb", c, 0)

\* the variable of the column gets a new upper bound and notifies the column
ActChgUb ==
    \E c \in ColIds, ndebug \in BOOLEAN : \E v \in ActUbVals \ {col[c].ub} :
        /\ ColExists(c)
        /\ ColLinksInRows(c)
        /\ col[c].lb <= v
        /\ MatStep(SCIPcolBoundChanged([Heap EXCEPT !.col[c].ub = v], c, "UPPER", col[c].ub, v,
                                       ndebug),
                   "ChgUb", c, 0)

ActGetActivityBounds ==
    \E r \in RowIds :
        /\ RowExists(r)
        /\ MatDone(SCIProwGetActivityBounds(Heap, r), "SCIProwGetActivityBounds", 0, r)

ActGetPseudoActivity ==
    \E r \in RowIds :
        /\ RowExists(r)
        /\ MatDone(SCIProwGetPseudoActivity(Heap, r), "SCIProwGetPseudoActivity", 0, r)

ActGetActivityResiduals ==
    \E r \in RowIds, c \in ColIds :
        /\ RowExists(r)
        /\ InRow(r, c)
        /\ MatDone(SCIProwGetActivityResiduals(Heap, r), "SCIProwGetActivityResiduals", c, r)

ActRowAddCoeff ==
    \E r \in RowIds, c \in ColIds, sgn \in {-1, 1} :
        /\ ColExists(c) /\ RowExists(r)
        /\ ~InCol(c, r) /\ ~InRow(r, c)
        /\ MatDone(SCIProwAddCoeff(Heap, r, c, ActCoef(c, sgn)), "SCIProwAddCoeff", c, r)

ActRowDelCoeff ==
    \E r \in RowIds, c \in ColIds :
        /\ ColExists(c) /\ RowExists(r)
        /\ InRow(r, c)
        /\ MatDone(SCIProwDelCoeff(Heap, r, c), "SCIProwDelCoeff", c, r)

ActRowChgCoeff ==
    \E r \in RowIds, c \in ColIds, v \in {-1, 2} :
        /\ ColExists(c) /\ RowExists(r)
        /\ InRow(r, c)
        /\ MatDone(SCIProwChgCoeff(Heap, r, c, v), "SCIProwChgCoeff", c, r)

\* a coefficient is changed or (value 0) deleted through the column
ActColChgCoeff ==
    \E c \in ColIds, r \in RowIds, v \in {0, 3} :
        /\ ColExists(c) /\ RowExists(r)
        /\ InCol(c, r)
        /\ MatDone(SCIPcolChgCoeff(Heap, c, r, v), "SCIPcolChgCoeff", c, r)

ActNext ==
    \/ ActColCreate \/ ActRowCreate
    \/ ActChgLb \/ ActChgUb
    \/ ActGetActivityBounds \/ ActGetPseudoActivity \/ ActGetActivityResiduals
    \/ ActRowAddCoeff \/ ActRowDelCoeff \/ ActRowChgCoeff \/ ActColChgCoeff

ActSpec == ActInit /\ [][ActNext]_vars

(* ------------- the state machine of a linear constraint ---------------- *)

\* the number of operations of a run
ConsMaxOps == 4

\* the largest number of entries of the constraint
MaxTerms == 2

ConsCoefVals == {-1, 1, 2}

ConsLhsVals == {-SetInfinity, 0, 4}

ConsRhsVals == {4, 5, SetInfinity}

\* the values the bounds of the variables are changed to
ConsLbVals == {-SetInfinity, 10}

ConsUbVals == {20, SetInfinity}

\* one operation was carried out on the constraint and left it as k
ConsStep(k, name, c, r) ==
    /\ nops < ConsMaxOps
    /\ k.exact
    /\ cons' = [k EXCEPT !.rc = "OKAY"]
    /\ rc' = k.rc
    /\ op' = [name |-> name, c |-> c, r |-> r]
    /\ nops' = nops + 1
    /\ UNCHANGED <<col, row, lp, lpi, log, hdlr>>

\* SCIPcreateConsLinear() for a constraint of the transformed problem; a
\* variable may be given more than once
ConsCreate ==
    \E n \in 0..MaxTerms :
        \E vs \in [1..n -> VarIds], cs \in [1..n -> ConsCoefVals], lhs \in ConsLhsVals,
           rhs \in ConsRhsVals, modifiable \in BOOLEAN :
            /\ ~cons.transformed
            /\ ConsStep(linconsCreateTransformed(cons, AsSeqUpTo(vs, n), AsSeqUpTo(cs, n), lhs,
                                                 rhs, modifiable),
                        "SCIPcreateConsLinear", 0, 0)

ConsChgVarLb ==
    \E x \in VarIds : \E v \in ConsLbVals \ {cons.var[x].lb} :
        /\ cons.transformed
        /\ v <= cons.var[x].ub
        /\ ConsStep(SCIPchgVarLb(cons, x, v), "SCIPchgVarLb", x, 0)

ConsChgVarUb ==
    \E x \in VarIds : \E v \in ConsUbVals \ {cons.var[x].ub} :
        /\ cons.transformed
        /\ cons.var[x].lb <= v
        /\ ConsStep(SCIPchgVarUb(cons, x, v), "SCIPchgVarUb", x, 0)

ConsGetActivityResiduals ==
    /\ cons.transformed
    /\ ConsStep(linconsGetActivityResiduals(cons), "linconsGetActivityResiduals", 0, 0)

\* one call of linconsTightenVarBounds() for position v, with nchgbds = 0
ConsTightenVarBounds ==
    \E v \in 0..(Len(cons.vars) - 1) :
        /\ cons.transformed
        /\ ~cons.modifiable
        /\ ConsStep(linconsTightenVarBounds(consPropStart(cons), v),
                    "linconsTightenVarBounds", v, 0)

\* the propagation of the constraint by consPropLinear()
ConsTightenBounds ==
    /\ cons.transformed
    /\ ConsStep(linconsTightenBounds(consPropStart(cons)), "linconsTightenBounds", 0, 0)

ConsNext ==
    \/ ConsCreate
    \/ ConsChgVarLb \/ ConsChgVarUb
    \/ ConsGetActivityResiduals
    \/ ConsTightenVarBounds \/ ConsTightenBounds

ConsSpec == Init /\ [][ConsNext]_vars

(* ------------- the state machine of the unbounded solution ------------- *)

\* the values of the feasible point and of the ray the LP solver returns
RayPrimsolVals == {-999, 0, 5, 999}

RayVals == {-4, -1, 0, 1, 4}

\* the objective value of the point x of the LP solver's columns
RECURSIVE LpiObjval(_, _, _)
LpiObjval(h, x, i) ==
    IF i = 0 THEN 0
    ELSE LpiObjval(h, x, i - 1) + x[i] * h.col[h.lp.lpicols[i]].obj

\* the LP with both columns and the first row
RayInit ==
    /\ col = SCIPlpAddRow(SCIPlpAddCol(SCIPlpAddCol(SCIPlpCreate, 1), 2), 1).col
    /\ row = SCIPlpAddRow(SCIPlpAddCol(SCIPlpAddCol(SCIPlpCreate, 1), 2), 1).row
    /\ lp = SCIPlpAddRow(SCIPlpAddCol(SCIPlpAddCol(SCIPlpCreate, 1), 2), 1).lp
    /\ lpi = SCIPlpCreate.lpi
    /\ rc = "OKAY"
    /\ log = <<>>
    /\ op = [name |-> "SCIPlpAddRow", c |-> 0, r |-> 1]
    /\ nops = 0
    /\ cons = NoCons
    /\ hdlr = NoHdlr

\* the primal simplex ends unbounded: the solver holds a feasible point with
\* a finite objective value and a ray along which the objective decreases;
\* the quotient 2 * infinity / rayobjval is an integer
RaySolvePrimal ==
    \E x \in [1..2 -> RayPrimsolVals], ray \in [1..2 -> RayVals] :
        /\ Abs(LpiObjval(lpFlush(Heap), x, 2)) < SetInfinity
        /\ LpiObjval(lpFlush(Heap), ray, 2) < 0
        /\ (2 * SetInfinity) % (-LpiObjval(lpFlush(Heap), ray, 2)) = 0
        /\ Done(LpiSolution(SCIPlpSolvePrimal(Heap, "unbounded",
                                              LpiObjval(lpFlush(Heap), x, 2)),
                            AsSeqUpTo(x, 2), <<3>>, AsSeqUpTo(ray, 2)),
                "SCIPlpSolvePrimal", 0, 0)

RayGetUnboundedSol ==
    /\ lp.flushed /\ lp.solved
    /\ lp.lpsolstat = "UNBOUNDED"
    /\ Done(SCIPlpGetUnboundedSol(Heap), "SCIPlpGetUnboundedSol", 0, 0)

RayNext == RaySolvePrimal \/ RayGetUnboundedSol

RaySpec == RayInit /\ [][RayNext]_vars

(* ---------------- the state machine of the row lifetime --------------- *)
(* The rows of the LP with the uses of their creators: a row is added to   *)
(* the LP, its creator releases it, its side is changed, the LP is flushed *)
(* and shrunk.  A row whose usage counter is 0 was freed.                  *)

LifeMaxOps == 5

\* a freed row is referenced by the array of the rows in the LP solver or by
\* the array of the changed rows
Dangling(h) ==
    \E r \in RowIds :
        /\ h.row[r].nuses = 0
        /\ \/ \E i \in 1..Len(h.lp.lpirows) : h.lp.lpirows[i] = r
           \/ \E i \in 1..Len(h.lp.chgrows) : h.lp.chgrows[i] = r

\* one operation was carried out and left the heap as h; a program that
\* holds a reference to a freed row is not followed
LifeStep(h, name, r) ==
    /\ nops < LifeMaxOps
    /\ ~Dangling(Heap)
    /\ col' = h.col
    /\ row' = h.row
    /\ lp' = h.lp
    /\ lpi' = h.lpi
    /\ rc' = h.rc
    /\ log' = h.log
    /\ op' = [name |-> name, c |-> 0, r |-> r]
    /\ nops' = nops + 1
    /\ cons' = cons
    /\ hdlr' = hdlr

LifeLpAddRow ==
    \E r \in RowIds :
        /\ row[r].nuses >= 1
        /\ row[r].lppos = -1
        /\ LifeStep(SCIPlpAddRow(Heap, r), "SCIPlpAddRow", r)

\* the creator of the row gives back its use
LifeRowRelease ==
    \E r \in RowIds :
        /\ row[r].held >= 1
        /\ row[r].nlocks < row[r].nuses
        /\ LifeStep(SCIProwRelease([Heap EXCEPT !.row[r].held = row[r].held - 1], r),
                    "SCIProwRelease", r)

LifeRowChgRhs ==
    \E r \in RowIds, v \in RhsVals :
        /\ row[r].nuses >= 1
        /\ LifeStep(SCIProwChgRhs(Heap, r, v), "SCIProwChgRhs", r)

LifeLpFlush == LifeStep(lpFlush(Heap), "lpFlush", 0)

LifeLpShrinkRows ==
    \E n \in 0..Len(lp.rows) :
        /\ n < Len(lp.rows)
        /\ \A i \in (n + 1)..Len(lp.rows) : row[lp.rows[i]].nlocks < row[lp.rows[i]].nuses
        /\ LifeStep(SCIPlpShrinkRows(Heap, n), "SCIPlpShrinkRows", 0)

LifeNext ==
    \/ LifeLpAddRow \/ LifeRowRelease \/ LifeRowChgRhs
    \/ LifeLpFlush \/ LifeLpShrinkRows

LifeSpec == Init /\ [][LifeNext]_vars

(* --------------- the state machine of the LP bookkeeping --------------- *)
(* Columns and rows with coefficients are added to the LP, rows are locked,*)
(* coefficients of resident columns are changed, the size of the LP is     *)
(* marked, the LP is shrunk and flushed.                                   *)

BookMaxOps == 7

BookStep(h, name, c, r) ==
    /\ nops < BookMaxOps
    /\ col' = h.col
    /\ row' = h.row
    /\ lp' = h.lp
    /\ lpi' = h.lpi
    /\ rc' = h.rc
    /\ log' = h.log
    /\ op' = [name |-> name, c |-> c, r |-> r]
    /\ nops' = nops + 1
    /\ cons' = cons
    /\ hdlr' = hdlr

BookColAddCoeff ==
    \E c \in ColIds, r \in RowIds, v \in AddVals :
        /\ ~InCol(c, r) /\ ~InRow(r, c)
        /\ BookStep(SCIPcolAddCoeff(Heap, c, r, v), "SCIPcolAddCoeff", c, r)

BookColChgCoeff ==
    \E c \in ColIds, r \in RowIds :
        /\ InCol(c, r)
        /\ BookStep(SCIPcolChgCoeff(Heap, c, r, 2), "SCIPcolChgCoeff", c, r)

BookRowLock ==
    \E r \in RowIds :
        /\ row[r].nlocks < MaxLocks
        /\ BookStep(SCIProwLock(Heap, r), "SCIProwLock", 0, r)

BookLpAddCol ==
    \E c \in ColIds :
        /\ col[c].lppos = -1
        /\ BookStep(SCIPlpAddCol(Heap, c), "SCIPlpAddCol", c, 0)

BookLpAddRow ==
    \E r \in RowIds :
        /\ row[r].lppos = -1
        /\ BookStep(SCIPlpAddRow(Heap, r), "SCIPlpAddRow", 0, r)

BookLpShrinkCols ==
    \E n \in 0..Len(lp.cols) :
        /\ n < Len(lp.cols)
        /\ BookStep(SCIPlpShrinkCols(Heap, n), "SCIPlpShrinkCols", 0, 0)

BookLpShrinkRows ==
    \E n \in 0..Len(lp.rows) :
        /\ n < Len(lp.rows)
        /\ BookStep(SCIPlpShrinkRows(Heap, n), "SCIPlpShrinkRows", 0, 0)

BookLpMarkSize == BookStep(SCIPlpMarkSize(Heap), "SCIPlpMarkSize", 0, 0)

BookLpFlush ==
    /\ ~lp.flushed
    /\ BookStep(lpFlush(Heap), "lpFlush", 0, 0)

BookNext ==
    \/ BookColAddCoeff \/ BookColChgCoeff \/ BookRowLock
    \/ BookLpAddCol \/ BookLpAddRow \/ BookLpShrinkCols \/ BookLpShrinkRows
    \/ BookLpMarkSize \/ BookLpFlush

BookSpec == Init /\ [][BookNext]_vars

(* ------- the state machine of the loop of linconsTightenBounds() ------- *)

\* the number of operations of a run before the loop; the passes of the
\* loop are not counted
TightenMaxOps == 2

\* the largest number of entries of the constraint
TightenMaxTerms == 3

TightenLhsVals == {-SetInfinity, 0, 16}

TightenRhsVals == {16, 24, SetInfinity}

\* the values the bounds of the variables are changed to before the loop
TightenLbVals == {-SetInfinity, 8}

TightenUbVals == {16, SetInfinity}

\* While linconsTightenBounds() runs, op holds its position: name is "do"
\* in front of a pass of the do-while loop with the local v in c and the
\* local lastsuccess in r, "return" after the function has returned, and
\* "inexact" after a pass with a quotient that is no integer.
InLoop == op.name = "do"

\* an operation outside the loop was carried out and left the constraint as k
TightenStep(k, name, c, r) ==
    /\ ~InLoop
    /\ cons.exact
    /\ nops < TightenMaxOps
    /\ cons' = [k EXCEPT !.rc = "OKAY"]
    /\ rc' = k.rc
    /\ op' = [name |-> name, c |-> c, r |-> r]
    /\ nops' = nops + 1
    /\ UNCHANGED <<col, row, lp, lpi, log, hdlr>>

TightenCreate ==
    /\ ~cons.transformed
    /\ \E n \in 0..TightenMaxTerms :
           \E vs \in [1..n -> VarIds], cs \in [1..n -> ConsCoefVals], lhs \in TightenLhsVals,
              rhs \in TightenRhsVals, modifiable \in BOOLEAN :
               TightenStep(linconsCreateTransformed(cons, AsSeqUpTo(vs, n), AsSeqUpTo(cs, n),
                                                    lhs, rhs, modifiable),
                           "SCIPcreateConsLinear", 0, 0)

TightenChgVarLb ==
    \E x \in VarIds : \E v \in TightenLbVals \ {cons.var[x].lb} :
        /\ ~InLoop
        /\ cons.transformed
        /\ v <= cons.var[x].ub
        /\ TightenStep(SCIPchgVarLb(cons, x, v), "SCIPchgVarLb", x, 0)

TightenChgVarUb ==
    \E x \in VarIds : \E v \in TightenUbVals \ {cons.var[x].ub} :
        /\ ~InLoop
        /\ cons.transformed
        /\ cons.var[x].lb <= v
        /\ TightenStep(SCIPchgVarUb(cons, x, v), "SCIPchgVarUb", x, 0)

\* linconsTightenBounds() up to the loop: it returns for a modifiable
\* constraint and for one without entries, else v = 0 and lastsuccess = 0
TightenEnter ==
    /\ ~InLoop
    /\ cons.exact
    /\ cons.transformed
    /\ cons' = consPropStart(cons)
    /\ op' = [name |-> IF cons.modifiable \/ Len(cons.vars) = 0 THEN "return" ELSE "do",
              c |-> 0, r |-> 0]
    /\ UNCHANGED <<col, row, lp, lpi, rc, log, nops, hdlr>>

\* the position after the call for position v that left the constraint
\* as k: the loop goes on with the next v, or the function returns
TightenAfter(k, lastnchgbds, v, lastsuccess) ==
    [name |-> IF ~k.exact THEN "inexact"
              ELSE IF linconsTightenGoesOn(k, lastnchgbds, v, lastsuccess) THEN "do"
              ELSE "return",
     c |-> NextPos(k, v),
     r |-> LastSuccess(k, lastnchgbds, v, lastsuccess)]

\* one pass of the do-while loop
TightenPass ==
    /\ InLoop
    /\ cons' = linconsTightenVarBounds(cons, op.c)
    /\ op' = TightenAfter(linconsTightenVarBounds(cons, op.c), cons.nchgbds, op.c, op.r)
    /\ UNCHANGED <<col, row, lp, lpi, rc, log, nops, hdlr>>

TightenNext ==
    \/ TightenCreate
    \/ TightenChgVarLb \/ TightenChgVarUb
    \/ TightenEnter
    \/ TightenPass

\* The program goes on while it is in the loop: weak fairness of
\* TightenPass, which is enabled in the states of InLoop and in no other
\* and changes op in each of them.
TightenFair == []<>(~InLoop) \/ []<><<TightenPass>>_vars

TightenSpec == Init /\ [][TightenNext]_vars /\ TightenFair

(* ------------- the state machine of a constraint handler --------------- *)

\* the number of operations of a run
HdlrMaxOps == 7

\* an operation on the handler or on one of its constraints was carried
\* out and left them as g
HdlrStep(g, name, c) ==
    /\ nops < HdlrMaxOps
    /\ hdlr' = g
    /\ op' = [name |-> name, c |-> c, r |-> 0]
    /\ nops' = nops + 1
    /\ UNCHANGED <<col, row, lp, lpi, rc, log, cons>>

\* the handler is created with or without needscons
HdlrInit ==
    /\ col = SCIPlpCreate.col
    /\ row = SCIPlpCreate.row
    /\ lp = SCIPlpCreate.lp
    /\ lpi = SCIPlpCreate.lpi
    /\ rc = SCIPlpCreate.rc
    /\ log = SCIPlpCreate.log
    /\ op = [name |-> "SCIPconshdlrCreate", c |-> 0, r |-> 0]
    /\ nops = 0
    /\ cons = NoCons
    /\ hdlr \in {SCIPconshdlrCreate(needscons) : needscons \in BOOLEAN}

HdlrConsCreate ==
    \E i \in HdlrConsIds, separate \in BOOLEAN, enforce \in BOOLEAN :
        /\ ~hdlr.cons[i].created
        /\ HdlrStep(SCIPconsCreate(hdlr, i, separate, enforce), "SCIPconsCreate", i)

\* the constraints that are new for the arrays after constraint i was
\* activated
NewAfterActivate(g, i) ==
    [g EXCEPT !.sepanew = IF g.cons[i].separate THEN @ \cup {i} ELSE @,
              !.enfonew = IF g.cons[i].enforce THEN @ \cup {i} ELSE @]

HdlrConsActivate ==
    \E i \in HdlrConsIds :
        /\ hdlr.cons[i].created
        /\ ~hdlr.cons[i].active
        /\ HdlrStep(NewAfterActivate(SCIPconsActivate(hdlr, i), i), "SCIPconsActivate", i)

HdlrConsDeactivate ==
    \E i \in HdlrConsIds :
        /\ hdlr.cons[i].active
        /\ HdlrStep([SCIPconsDeactivate(hdlr, i) EXCEPT !.sepanew = @ \ {i},
                                                        !.enfonew = @ \ {i}],
                    "SCIPconsDeactivate", i)

HdlrSeparate ==
    HdlrStep([SCIPconshdlrSeparate(hdlr) EXCEPT !.sepanew = {}], "SCIPconshdlrSeparate", 0)

HdlrEnforceLPSol ==
    HdlrStep([SCIPconshdlrEnforceLPSol(hdlr) EXCEPT !.enfonew = {}],
             "SCIPconshdlrEnforceLPSol", 0)

HdlrResetSepa ==
    HdlrStep([SCIPconshdlrResetSepa(hdlr) EXCEPT !.sepanew = {}], "SCIPconshdlrResetSepa", 0)

HdlrResetEnfo ==
    HdlrStep([SCIPconshdlrResetEnfo(hdlr) EXCEPT !.enfonew = {}], "SCIPconshdlrResetEnfo", 0)

HdlrNext ==
    \/ HdlrConsCreate
    \/ HdlrConsActivate \/ HdlrConsDeactivate
    \/ HdlrSeparate \/ HdlrEnforceLPSol
    \/ HdlrResetSepa \/ HdlrResetEnfo

HdlrSpec == HdlrInit /\ [][HdlrNext]_vars

(* ------------------------------ properties ---------------------------- *)

\* the actual coefficient of row r and column c: the row's entry for the
\* column, else the column's entry for the row, else 0
ActualCoef(h, r, c) ==
    LET ri == {i \in 1..Len(h.row[r].cols) : h.row[r].cols[i] = c}
        ci == {i \in 1..Len(h.col[c].rows) : h.col[c].rows[i] = r}
    IN  IF ri # {} THEN h.row[r].vals[CHOOSE i \in ri : TRUE]
        ELSE IF ci # {} THEN h.col[c].vals[CHOOSE i \in ci : TRUE]
        ELSE 0

\* the nonzero values the solver holds at row position i, column position j
LpiCoefs(h, i, j) == {e.v : e \in {x \in h.lpi.coef : x.r = i /\ x.c = j}}

\* the solver holds the columns and rows of the actual LP at the same
\* positions, with the current bounds and sides and the actual coefficients
LpiUpToDate(h) ==
    /\ Len(h.lpi.cols) = ncols(h)
    /\ Len(h.lpi.rows) = nrows(h)
    /\ \A j \in 1..ncols(h) :
          LET c == h.lp.cols[j]
          IN  h.lpi.cols[j] = [name |-> c, lb |-> LpiValue(h.col[c].lb), ub |-> LpiValue(h.col[c].ub)]
    /\ \A i \in 1..nrows(h) :
          LET r == h.lp.rows[i]
          IN  h.lpi.rows[i] = [name |-> r, lhs |-> LpiValue(h.row[r].lhs), rhs |-> LpiValue(h.row[r].rhs)]
    /\ \A i \in 1..nrows(h), j \in 1..ncols(h) :
          LET a == ActualCoef(h, h.lp.rows[i], h.lp.cols[j])
          IN  LpiCoefs(h, i - 1, j - 1) = IF a = 0 THEN {} ELSE {a}
    /\ \A e \in h.lpi.coef : e.r < nrows(h) /\ e.c < ncols(h)

\* C1: whatever mutations led to a state, a successful flush from it leaves
\* the solver with exactly the columns and rows of the actual LP, at the same
\* positions, with the current bounds and sides and, for every row/column
\* pair of the LP, the actual coefficient of the pair.
C1_FlushBringsSolverUpToDate ==
    LET h == lpFlush(Heap)
    IN  Ok(h) => LpiUpToDate(h)

\* no row and no column that is resident in the solver holds an unlinked entry
NoStrayEntry(h) ==
    \A r \in RowIds, c \in ColIds :
        /\ (\E i \in 1..Len(h.row[r].cols) : h.row[r].cols[i] = c /\ h.row[r].linkpos[i] = -1)
               => h.row[r].lpipos = -1
        /\ (\E i \in 1..Len(h.col[c].rows) : h.col[c].rows[i] = r /\ h.col[c].linkpos[i] = -1)
               => h.col[c].lpipos = -1

\* where no resident row or column holds an unlinked entry, a successful
\* flush does bring the solver up to date
FlushUpToDateWhenLinked ==
    LET h == lpFlush(Heap)
    IN  (Ok(h) /\ NoStrayEntry(Heap)) => LpiUpToDate(h)

\* C2: whenever the LP is flushed, the solver-resident arrays have the
\* lengths and the elements of the actual arrays, every column and row of
\* the LP sits at the same position in both (lpipos = lppos = i), and none
\* of them has a dirty flag set.
C2_FlushedMeansResidentIsActual ==
    lp.flushed =>
        /\ Len(lp.lpicols) = Len(lp.cols)
        /\ Len(lp.lpirows) = Len(lp.rows)
        /\ \A i \in 1..Len(lp.cols) :
              /\ lp.lpicols[i] = lp.cols[i]
              /\ col[lp.cols[i]].lpipos = i - 1
              /\ col[lp.cols[i]].lppos = i - 1
              /\ ~col[lp.cols[i]].lbchanged
              /\ ~col[lp.cols[i]].ubchanged
              /\ ~col[lp.cols[i]].coefchanged
        /\ \A i \in 1..Len(lp.rows) :
              /\ lp.lpirows[i] = lp.rows[i]
              /\ row[lp.rows[i]].lpipos = i - 1
              /\ row[lp.rows[i]].lppos = i - 1
              /\ ~row[lp.rows[i]].lhschanged
              /\ ~row[lp.rows[i]].rhschanged
              /\ ~row[lp.rows[i]].coefchanged

\* a flush has just sent cached bound or side changes of a resident column
\* or row to the solver and left the LP flushed
C2_Witness ==
    /\ lp.flushed
    /\ Len(lp.cols) + Len(lp.rows) >= 1
    /\ \E i \in 1..Len(log) : log[i].call \in {"chgbounds", "chgsides"}

\* C3: in every reachable state solved implies flushed: the combination
\* (unflushed, solved) never occurs.
C3_SolvedImpliesFlushed == lp.solved => lp.flushed

\* a solve of an LP with a column and a row has just succeeded
C3_Witness ==
    /\ op.name \in {"SCIPlpSolvePrimal", "SCIPlpSolveDual"}
    /\ lp.solved
    /\ Len(lp.cols) >= 1
    /\ Len(lp.rows) >= 1

CoefOps ==
    {"SCIPcolAddCoeff", "SCIPcolDelCoeff", "SCIPcolChgCoeff",
     "SCIProwAddCoeff", "SCIProwDelCoeff", "SCIProwChgCoeff"}

\* the step is a bound change on a column that is resident in the solver
BoundChangeOnResident ==
    /\ op'.name \in {"ChgLb", "ChgUb"}
    /\ col[op'.c].lpipos >= 0

\* the step changes a side of a row that is resident in the solver
SideChangeOnResident ==
    /\ op'.name \in {"SCIProwChgLhs", "SCIProwChgRhs"}
    /\ row[op'.r].lpipos >= 0
    /\ row'[op'.r].lhs # row[op'.r].lhs \/ row'[op'.r].rhs # row[op'.r].rhs

\* the step adds, deletes or changes the value of a coefficient of a row
\* that is resident in the solver
CoefChangeOnResident ==
    /\ op'.name \in CoefOps
    /\ rc' = "OKAY"
    /\ row[op'.r].lpipos >= 0
    /\ ActualCoef([col |-> col', row |-> row'], op'.r, op'.c) # ActualCoef(Heap, op'.r, op'.c)

\* C4 as stated: a bound change on a resident column, a side change on a
\* resident row and any coefficient addition, deletion or value change on a
\* resident row leave the LP unflushed and unsolved.
C4_ChangeOnResidentUnflushes ==
    [][(BoundChangeOnResident \/ SideChangeOnResident \/ CoefChangeOnResident)
           => (~lp'.flushed /\ ~lp'.solved)]_vars

\* C4 amended: a bound change on a resident column, a side change on a
\* resident row and a coefficient addition, deletion or value change on a
\* resident row for a column that is resident too leave the LP unflushed
\* and unsolved.
C4_ChangeOnResidentPairUnflushes ==
    [][(BoundChangeOnResident \/ SideChangeOnResident
            \/ (CoefChangeOnResident /\ col[op'.c].lpipos >= 0))
           => (~lp'.flushed /\ ~lp'.solved)]_vars

\* a coefficient of a resident row and a resident column has just been
\* added, deleted or changed, and the LP is unflushed and unsolved
C4_Witness ==
    /\ op.name \in CoefOps
    /\ rc = "OKAY"
    /\ row[op.r].lpipos >= 0
    /\ col[op.c].lpipos >= 0
    /\ row[op.r].coefchanged \/ col[op.c].coefchanged
    /\ ~lp.flushed
    /\ ~lp.solved

\* C5: a flush that directly follows a successful flush makes no call of
\* the solver interface and leaves the LP, its resident arrays, counts,
\* unchanged-prefix boundaries and flags, the columns, the rows and the
\* solver as the first flush left them.
C5_SecondFlushIsNoOp ==
    [][(op.name = "lpFlush" /\ rc = "OKAY" /\ op'.name = "lpFlush" /\ nops' = nops + 1)
           => (log' = <<>> /\ rc' = "OKAY" /\ lp' = lp /\ lpi' = lpi /\ col' = col /\ row' = row)]_vars

\* a flush of an LP that was flushed, with columns or rows resident in the
\* solver, has just returned without a call of the solver interface
C5_Witness ==
    /\ op.name = "lpFlush"
    /\ rc = "OKAY"
    /\ log = <<>>
    /\ lp.flushed
    /\ Len(lp.lpicols) + Len(lp.lpirows) >= 1

\* the place of a solver-interface call in the order of a flush
FlushRank(call) ==
    CASE call = "delcols" -> 1
      [] call = "delrows" -> 2
      [] call = "chgbounds" -> 3
      [] call = "chgsides" -> 4
      [] call = "addcols" -> 5
      [] call = "addrows" -> 6
      [] OTHER -> 0

\* the flush calls of the call sequence l are issued in the order of a flush
InFlushOrder(l) ==
    \A i, j \in 1..Len(l) :
        (i < j /\ FlushRank(l[i].call) > 0 /\ FlushRank(l[j].call) > 0)
            => FlushRank(l[i].call) < FlushRank(l[j].call)

\* C6: the solver-interface calls of one flush, of the operation that led
\* to a state as well as of the flush that can follow it, are issued in the
\* order delete columns, delete rows, change bounds, change sides, add
\* columns, add rows: every deletion comes before every addition.
C6_FlushCallOrder == InFlushOrder(log) /\ InFlushOrder(lpFlush(Heap).log)

\* a flush has just added columns and rows to the solver in one go
C6_Witness ==
    /\ op.name = "lpFlush"
    /\ \E i, j \in 1..Len(log) : i < j /\ log[i].call = "addcols" /\ log[j].call = "addrows"

SolveOps == {"SCIPlpSolvePrimal", "SCIPlpSolveDual"}

\* the last operation called the simplex of the solver
SolverCalled == \E i \in 1..Len(log) : log[i].call \in {"solveprimal", "solvedual"}

\* C7: after a primal or dual solve that ended in failure the call has
\* returned an LP error, the recorded status is ERROR and the LP is
\* flushed and not solved.
C7_FailedSolveIsUnsolved ==
    (op.name \in SolveOps /\ SolverCalled /\ lpi.solstat \in {"other"} \cup
         (IF op.name = "SCIPlpSolvePrimal" THEN {"objlim"} ELSE {}))
        => (rc = "LPERROR" /\ lp.lpsolstat = "ERROR" /\ lp.flushed /\ ~lp.solved)

\* C8: after a successful solve the LP is flushed and solved, the status is
\* one of OPTIMAL, INFEASIBLE, UNBOUNDED, OBJLIMIT (dual solve only),
\* ITERLIMIT and TIMELIMIT, the cached objective value is the solver's on
\* OPTIMAL, +infinity on INFEASIBLE and -infinity on UNBOUNDED, and in every
\* case it is a value the call has written: the solver's value or an
\* infinity, not what was cached before.
C8_SuccessfulSolveOutcome ==
    (op.name \in SolveOps /\ rc = "OKAY")
        => /\ lp.flushed
           /\ lp.solved
           /\ lp.lpsolstat \in {"OPTIMAL", "INFEASIBLE", "UNBOUNDED", "OBJLIMIT", "ITERLIMIT", "TIMELIMIT"}
           /\ lp.lpsolstat = "OBJLIMIT" => op.name = "SCIPlpSolveDual"
           /\ lp.lpsolstat = "OPTIMAL" => lp.objval = lpi.objval
           /\ lp.lpsolstat = "INFEASIBLE" => lp.objval = SetInfinity
           /\ lp.lpsolstat = "UNBOUNDED" => lp.objval = -SetInfinity
           /\ lp.objval \in {lpi.objval, SetInfinity, -SetInfinity}

\* a solve of an LP with a column has just ended at the iteration limit
C8_Witness ==
    /\ op.name \in SolveOps
    /\ rc = "OKAY"
    /\ lp.lpsolstat = "ITERLIMIT"
    /\ Len(lp.cols) >= 1

\* C9: the simplex of the solver is only called while the LP is flushed,
\* and a solve whose flush returned an error, which leaves the LP
\* unflushed, does not call it.
C9_SolveFlushesFirst ==
    /\ \A i \in 1..Len(log) : log[i].call \in {"solveprimal", "solvedual"} => log[i].flushed
    /\ (op.name \in SolveOps /\ ~lp.flushed) => (rc # "OKAY" /\ ~SolverCalled)

\* a solve has just returned the error of its flush without calling the solver
C9_Witness ==
    /\ op.name \in SolveOps
    /\ rc = "INVALIDDATA"
    /\ ~lp.flushed
    /\ ~SolverCalled

\* C10: a primal solve in which the simplex signalled an exceeded objective
\* limit has returned an LP error and recorded the status ERROR.
C10_PrimalObjlimitIsError ==
    (op.name = "SCIPlpSolvePrimal" /\ SolverCalled /\ lpi.solstat = "objlim")
        => (rc = "LPERROR" /\ lp.lpsolstat = "ERROR")

\* the simplex of a primal solve of an LP with a column has just signalled
\* an exceeded objective limit
C10_Witness ==
    /\ op.name = "SCIPlpSolvePrimal"
    /\ SolverCalled
    /\ lpi.solstat = "objlim"
    /\ lp.lpsolstat = "ERROR"
    /\ Len(lp.cols) >= 1

\* the (column, value) pairs of the coefficient vector of row r
RowPairs(rw, r) == {<<rw[r].cols[i], rw[r].vals[i]>> : i \in 1..Len(rw[r].cols)}

RowCoefOps == {"SCIProwAddCoeff", "SCIProwDelCoeff", "SCIProwChgCoeff"}

\* C11: adding, deleting or changing a coefficient of a locked (hence
\* unmodifiable) row through the row operations returns an invalid-data
\* error and leaves the coefficient vector of the row with the length and
\* the (column, value) entries it had; a vector that was sorted keeps every
\* entry in its place.
C11_LockedRowRejectsCoefChange ==
    [][(nops' = nops + 1 /\ op'.name \in RowCoefOps /\ row[op'.r].nlocks >= 1
            /\ ~row[op'.r].modifiable)
           => /\ rc' = "INVALIDDATA"
              /\ Len(row'[op'.r].cols) = Len(row[op'.r].cols)
              /\ RowPairs(row', op'.r) = RowPairs(row, op'.r)
              /\ row[op'.r].sorted
                     => (row'[op'.r].cols = row[op'.r].cols /\ row'[op'.r].vals = row[op'.r].vals)]_vars

\* the deletion or change of a coefficient of a locked row with a
\* coefficient has just been refused
C11_Witness ==
    /\ op.name \in {"SCIProwDelCoeff", "SCIProwChgCoeff"}
    /\ rc = "INVALIDDATA"
    /\ row[op.r].nlocks >= 1
    /\ ~row[op.r].modifiable
    /\ \E i \in 1..Len(row[op.r].cols) : row[op.r].cols[i] = op.c

SideOps == {"SCIProwChgLhs", "SCIProwChgRhs"}

\* C12: changing the left or the right hand side of a row with nlocks > 0
\* returns an error and leaves both sides of the row as they were.
C12_LockedRowRejectsSideChange ==
    [][(nops' = nops + 1 /\ op'.name \in SideOps /\ row[op'.r].nlocks > 0)
           => /\ rc' # "OKAY"
              /\ row'[op'.r].lhs = row[op'.r].lhs
              /\ row'[op'.r].rhs = row[op'.r].rhs]_vars

\* the operations that take or give back a use of a row
UseOps == {"SCIProwCapture", "SCIProwRelease", "SCIPlpAddRow", "SCIPlpShrinkRows"}

\* C13: a row that was created has usage counter 1; adding it to the LP
\* increases the counter by one, removing it from the LP decreases it by
\* one; a row is destroyed when its counter reaches 0 and not before: while
\* the counter stays at 1 or more, taking and giving back uses leaves the
\* coefficients of the row alone, and at 0 its vector is given back; a row
\* in the LP has a counter of 1 or more.
C13_RowUsageCounter ==
    [][(nops' = nops + 1 /\ rc' = "OKAY")
           => \A r \in RowIds :
                  /\ (op'.name = "SCIProwCreate" /\ op'.r = r) => row'[r].nuses = 1
                  /\ (op'.name = "SCIPlpAddRow" /\ op'.r = r)
                         => (row'[r].nuses = row[r].nuses + 1 /\ row'[r].lppos >= 0)
                  /\ (op'.name = "SCIPlpShrinkRows" /\ row[r].lppos >= 0 /\ row'[r].lppos = -1)
                         => row'[r].nuses = row[r].nuses - 1
                  /\ (op'.name = "SCIPlpShrinkRows" /\ row'[r].lppos = row[r].lppos)
                         => row'[r].nuses = row[r].nuses
                  /\ row'[r].lppos >= 0 => row'[r].nuses >= 1
                  /\ row'[r].nuses = row'[r].held + (IF row'[r].lppos >= 0 THEN 1 ELSE 0)
                  /\ (op'.name \in UseOps /\ row'[r].nuses >= 1)
                         => (row'[r].cols = row[r].cols /\ row'[r].vals = row[r].vals)
                  /\ (op'.name \in UseOps /\ row[r].nuses >= 1 /\ row'[r].nuses = 0)
                         => row'[r].cols = <<>>]_vars

\* a row with coefficients that its creator still holds has just been
\* removed from the LP
C13_Witness ==
    /\ op.name = "SCIPlpShrinkRows"
    /\ \E r \in RowIds :
           /\ row[r].nuses = 1
           /\ row[r].held = 1
           /\ row[r].lppos = -1
           /\ row[r].cols # <<>>

\* the number of -1 marks in a link array
NumUnlinked(linkpos) == Cardinality({i \in 1..Len(linkpos) : linkpos[i] = -1})

\* nunlinked of every column and of every row counts its unlinked entries
UnlinkedCounted(cl, rw) ==
    /\ \A c \in ColIds : cl[c].nunlinked = NumUnlinked(cl[c].linkpos)
    /\ \A r \in RowIds : rw[r].nunlinked = NumUnlinked(rw[r].linkpos)

\* C14: in every state, directly after a creation with entries included,
\* nunlinked of every column and row is the number of its entries with link
\* position -1, and the creation of a column changes no row.
C14_UnlinkedCounted ==
    /\ UnlinkedCounted(col, row)
    /\ [][nops' = nops + 1
              => /\ UnlinkedCounted(col', row')
                 /\ op'.name = "SCIPcolCreate" => row' = row]_vars

\* the (row, value) pairs of the coefficient vector of column c
ColPairs(cl, c) == {<<cl[c].rows[i], cl[c].vals[i]>> : i \in 1..Len(cl[c].rows)}

\* column c of heap h has the entries of column c in cl and none unlinked
SameLinkedCol(h, cl, c) ==
    /\ ColPairs(h.col, c) = ColPairs(cl, c)
    /\ Len(h.col[c].rows) = Len(cl[c].rows)
    /\ h.col[c].nunlinked = 0

\* C15: linking a column with nunlinked > 0 leaves it with nunlinked = 0, and
\* unlinking and linking it again gives the column the same (row, value)
\* entries, the same length and nunlinked = 0 again.
C15_LinkUnlinkLink ==
    [][(nops' = nops + 1 /\ op'.name = "colLink" /\ rc' = "OKAY"
            /\ col[op'.c].nunlinked > 0)
           => /\ col'[op'.c].nunlinked = 0
              /\ SameLinkedCol(colLink([colUnlink(Heap', op'.c) EXCEPT !.rc = "OKAY"], op'.c),
                               col', op'.c)]_vars

\* the value stored at position pos of the vector of row r, 0 if pos is -1
RowValAt(h, r, pos) == IF pos = -1 THEN 0 ELSE h.row[r].vals[pos + 1]

\* the value stored at position pos of the vector of column c, 0 if pos is -1
ColValAt(h, c, pos) == IF pos = -1 THEN 0 ELSE h.col[c].vals[pos + 1]

\* the value that rowSearchCoeff() finds for column c in row r, 0 if none
RowFoundVal(h, r, c) == RowValAt(h, r, rowSearchPos(h, r, c))

\* the value that colSearchCoeff() finds for row r in column c, 0 if none
ColFoundVal(h, c, r) == ColValAt(h, c, colSearchPos(h, c, r))

\* C16: after SCIPcolAddCoeff(col, row, val), once colLink(col) has linked
\* the column, rowSearchCoeff(row, col) finds a position of the row that
\* stores val; after SCIProwAddCoeff(row, col, val), once rowLink(row) has
\* linked the row, colSearchCoeff(col, row) finds a position that stores val.
C16_AddedCoefFoundAfterLink ==
    [][(nops' = nops + 1 /\ rc' = "OKAY")
           => /\ (op'.name = "SCIPcolAddCoeff" /\ Ok(colLink(Heap', op'.c)))
                     => RowFoundVal(SCIProwSort(colLink(Heap', op'.c), op'.r), op'.r, op'.c)
                            \in AddVals
              /\ (op'.name = "SCIProwAddCoeff" /\ Ok(rowLink(Heap', op'.r)))
                     => ColFoundVal(SCIPcolSort(rowLink(Heap', op'.r), op'.c), op'.c, op'.r)
                            \in AddVals]_vars

\* no entry of a column or row vector of heap h is zero
NoZeroCoef(h) ==
    /\ \A c \in ColIds : \A i \in 1..Len(h.col[c].vals) : ~SCIPsetIsZero(h.col[c].vals[i])
    /\ \A r \in RowIds : \A i \in 1..Len(h.row[r].vals) : ~SCIPsetIsZero(h.row[r].vals[i])

ColHas(h, c, r) == \E i \in 1..Len(h.col[c].rows) : h.col[c].rows[i] = r

RowHas(h, r, c) == \E i \in 1..Len(h.row[r].cols) : h.row[r].cols[i] = c

\* the coefficient of row r in column c and of column c in row r
ColCoef(c, r) == col[c].vals[CHOOSE i \in 1..Len(col[c].rows) : col[c].rows[i] = r]

RowCoef(r, c) == row[r].vals[CHOOSE i \in 1..Len(row[r].cols) : row[r].cols[i] = c]

\* the entry of row r in column c is linked, the entry of column c in row r is
ColLinkedTo(c, r) ==
    \E i \in 1..Len(col[c].rows) : col[c].rows[i] = r /\ col[c].linkpos[i] # -1

RowLinkedTo(r, c) ==
    \E i \in 1..Len(row[r].cols) : row[r].cols[i] = c /\ row[r].linkpos[i] # -1

\* heap h, left by a successful change of the coefficient of row r in column
\* c to zero, holds no zero and has the entry neither in the column nor, if
\* it was linked, in the row
ColCoefRemoved(h, c, r) ==
    Ok(h) => /\ NoZeroCoef(h)
             /\ ~ColHas(h, c, r)
             /\ ColLinkedTo(c, r) => ~RowHas(h, r, c)

RowCoefRemoved(h, r, c) ==
    Ok(h) => /\ NoZeroCoef(h)
             /\ ~RowHas(h, r, c)
             /\ RowLinkedTo(r, c) => ~ColHas(h, c, r)

SortedFlagsRight(cl, rw) ==
    /\ \A c \in ColIds : cl[c].sorted => IsSortedVec(cl[c].rows)
    /\ \A r \in RowIds : rw[r].sorted => IsSortedVec(rw[r].cols)

\* e is an entry of the vector ents, and not the one with the largest index
NotLargestIn(ents, e) ==
    /\ \E i \in 1..Len(ents) : ents[i] = e
    /\ \E i \in 1..Len(ents) : ents[i] > e

\* the search for row r in column c, as colSearchCoeff() does it on heap h,
\* returns the position of r if c has the entry and -1 if not
ColSearchRight(h, c, r) ==
    IF ColHas(h, c, r)
    THEN /\ colSearchPos(SCIPcolSort(h, c), c, r) >= 0
         /\ SCIPcolSort(h, c).col[c].rows[colSearchPos(SCIPcolSort(h, c), c, r) + 1] = r
    ELSE colSearchPos(SCIPcolSort(h, c), c, r) = -1

RowSearchRight(h, r, c) ==
    IF RowHas(h, r, c)
    THEN /\ rowSearchPos(SCIProwSort(h, r), r, c) >= 0
         /\ SCIProwSort(h, r).row[r].cols[rowSearchPos(SCIProwSort(h, r), r, c) + 1] = c
    ELSE rowSearchPos(SCIProwSort(h, r), r, c) = -1

MissOn(names) ==
    /\ nops' = nops + 1
    /\ op'.name \in names
    /\ IF op'.name \in {"SCIPcolDelCoeff", "SCIPcolChgCoeff"}
       THEN ~InCol(op'.c, op'.r)
       ELSE ~InRow(op'.r, op'.c)

\* the step leaves the entries and the length of every vector as they were
VectorsKept ==
    /\ \A c \in ColIds : /\ ColPairs(col', c) = ColPairs(col, c)
                          /\ Len(col'[c].rows) = Len(col[c].rows)
    /\ \A r \in RowIds : /\ RowPairs(row', r) = RowPairs(row, r)
                          /\ Len(row'[r].cols) = Len(row[r].cols)

\* the step appends one unlinked entry for the named pair to the vector of
\* the acting side and leaves the entries of every other vector as they were
CoefAppended ==
    /\ IF op'.name = "SCIPcolChgCoeff"
       THEN /\ \E v \in ChgVals \ {0} :
                  ColPairs(col', op'.c) = ColPairs(col, op'.c) \cup {<<op'.r, v>>}
            /\ Len(col'[op'.c].rows) = Len(col[op'.c].rows) + 1
            /\ col'[op'.c].linkpos[Len(col'[op'.c].rows)] = -1
            /\ RowPairs(row', op'.r) = RowPairs(row, op'.r)
       ELSE /\ \E v \in ChgVals \ {0} :
                  RowPairs(row', op'.r) = RowPairs(row, op'.r) \cup {<<op'.c, v>>}
            /\ Len(row'[op'.r].cols) = Len(row[op'.r].cols) + 1
            /\ row'[op'.r].linkpos[Len(row'[op'.r].cols)] = -1
            /\ ColPairs(col', op'.c) = ColPairs(col, op'.c)

DelOps == {"SCIPcolDelCoeff", "SCIProwDelCoeff"}

ChgOps == {"SCIPcolChgCoeff", "SCIProwChgCoeff"}

\* C19 as claimed: deleting or changing a coefficient that the vector does
\* not hold returns an invalid-data error and leaves the vectors unchanged.
C19_MissFailsUnchanged ==
    [][MissOn(DelOps \cup ChgOps) => (rc' = "INVALIDDATA" /\ VectorsKept)]_vars

\* C19: deleting a coefficient that the vector does not hold returns an
\* invalid-data error and leaves the entries of all vectors unchanged;
\* changing one adds it: the call succeeds with the coefficient appended,
\* unlinked, to the vector of the acting side, and fails with the vectors
\* unchanged only if the row is locked.
C19_DelMissFailsChgMissAdds ==
    [][/\ MissOn(DelOps) => (rc' = "INVALIDDATA" /\ VectorsKept)
       /\ MissOn(ChgOps)
              => IF row[op'.r].nlocks > 0 /\ op'.name = "SCIProwChgCoeff"
                 THEN rc' = "INVALIDDATA" /\ VectorsKept
                 ELSE rc' = "OKAY" /\ CoefAppended]_vars

\* the deletion of a coefficient that a column with another coefficient does
\* not hold has just been refused
C19_Witness ==
    /\ op.name = "SCIPcolDelCoeff"
    /\ rc = "INVALIDDATA"
    /\ ~InCol(op.c, op.r)
    /\ Len(col[op.c].rows) >= 1

\* C20: the construction of a row never ends with a row whose left hand side
\* exceeds its right hand side: it either succeeds with lhs <= rhs or
\* returns the invalid-data error to its caller and creates no row.
C20_RowCreateRejectsLhsAboveRhs ==
    [][(nops' = nops + 1 /\ op'.name = "SCIProwCreate")
           => /\ rc' \in {"OKAY", "INVALIDDATA"}
              /\ rc' = "OKAY" => row'[op'.r].lhs <= row'[op'.r].rhs
              /\ rc' = "INVALIDDATA" => row' = row]_vars

(* ------------------------ activities of the rows ----------------------- *)

\* the number of terms of row r of heap h whose bound is infinite in the
\* direction of the minimal activity: the lower bound of a term with a
\* positive coefficient, the upper bound of a term with a negative one
MinInfTerms(h, r) ==
    Cardinality({i \in 1..Len(h.row[r].cols) :
        \/ h.row[r].vals[i] > 0 /\ SCIPsetIsInfinity(-h.col[h.row[r].cols[i]].lb)
        \/ h.row[r].vals[i] < 0 /\ SCIPsetIsInfinity(h.col[h.row[r].cols[i]].ub)})

\* the same for the maximal activity
MaxInfTerms(h, r) ==
    Cardinality({i \in 1..Len(h.row[r].cols) :
        \/ h.row[r].vals[i] > 0 /\ SCIPsetIsInfinity(h.col[h.row[r].cols[i]].ub)
        \/ h.row[r].vals[i] < 0 /\ SCIPsetIsInfinity(-h.col[h.row[r].cols[i]].lb)})

\* C21: while the activity bounds of a row are valid, minactivityinf and
\* maxactivityinf are the numbers of terms of the row whose bound is infinite
\* in the direction of the minimal and of the maximal activity, and neither
\* is negative.
C21_InfiniteContributorsCounted ==
    rc # "ABORT" =>
        \A r \in RowIds :
            (RowExists(r) /\ row[r].validactivitybds)
                => /\ row[r].minactivityinf = MinInfTerms(Heap, r)
                   /\ row[r].maxactivityinf = MaxInfTerms(Heap, r)
                   /\ row[r].minactivityinf >= 0
                   /\ row[r].maxactivityinf >= 0

\* the finite part of the minimal activity of row r of heap h, calculated
\* from the bounds of the variables: the constant and the terms whose bound
\* is finite in the direction of the minimal activity
RECURSIVE MinFiniteSum(_, _, _)
MinFiniteSum(h, r, i) ==
    IF i = 0 THEN h.row[r].constant
    ELSE MinFiniteSum(h, r, i - 1)
         + (IF h.row[r].vals[i] > 0
            THEN FinitePart(h.row[r].vals[i], h.col[h.row[r].cols[i]].lb,
                            SCIPsetIsInfinity(-h.col[h.row[r].cols[i]].lb))
            ELSE FinitePart(h.row[r].vals[i], h.col[h.row[r].cols[i]].ub,
                            SCIPsetIsInfinity(h.col[h.row[r].cols[i]].ub)))

\* the same for the maximal activity
RECURSIVE MaxFiniteSum(_, _, _)
MaxFiniteSum(h, r, i) ==
    IF i = 0 THEN h.row[r].constant
    ELSE MaxFiniteSum(h, r, i - 1)
         + (IF h.row[r].vals[i] > 0
            THEN FinitePart(h.row[r].vals[i], h.col[h.row[r].cols[i]].ub,
                            SCIPsetIsInfinity(h.col[h.row[r].cols[i]].ub))
            ELSE FinitePart(h.row[r].vals[i], h.col[h.row[r].cols[i]].lb,
                            SCIPsetIsInfinity(-h.col[h.row[r].cols[i]].lb)))

\* the minimal and maximal activity of row r calculated from the bounds
FullMinActivity(h, r) ==
    IF MinInfTerms(h, r) > 0 THEN -SetInfinity ELSE MinFiniteSum(h, r, Len(h.row[r].cols))

FullMaxActivity(h, r) ==
    IF MaxInfTerms(h, r) > 0 THEN SetInfinity ELSE MaxFiniteSum(h, r, Len(h.row[r].cols))

\* C22: while the activity bounds of a row are valid, the minimal and maximal
\* activity that SCIProwGetActivityBounds() returns from the incrementally
\* updated cache are the values a calculation from the actual bounds gives.
C22_IncrementalEqualsRecomputed ==
    rc # "ABORT" =>
        \A r \in RowIds :
            (RowExists(r) /\ row[r].validactivitybds)
                => /\ MinActivityOut(Heap, r) = FullMinActivity(Heap, r)
                   /\ MaxActivityOut(Heap, r) = FullMaxActivity(Heap, r)

\* values of the variables the activities of the rows are looked at for
PointVals == {-12, 0, 3, 5, 10, 12}

\* the points within the bounds of the variables
FeasiblePoints ==
    {x \in [ColIds -> PointVals] : \A c \in ColIds : col[c].lb <= x[c] /\ x[c] <= col[c].ub}

\* the activity of row r at the point x
RECURSIVE ActivityAt(_, _, _)
ActivityAt(r, x, i) ==
    IF i = 0 THEN row[r].constant
    ELSE ActivityAt(r, x, i - 1) + row[r].vals[i] * x[row[r].cols[i]]

\* the activity of row r at every point within the bounds lies within the
\* activity bounds of heap h
ActivityWithin(h, r) ==
    \A x \in FeasiblePoints :
        /\ MinActivityOut(h, r) <= ActivityAt(r, x, Len(row[r].cols))
        /\ ActivityAt(r, x, Len(row[r].cols)) <= MaxActivityOut(h, r)

\* C23: the activity of a row at any point within the bounds of the variables
\* lies within the minimal and maximal activity SCIProwGetActivityBounds()
\* returns, be they calculated by the call or updated since an earlier one.
C23_ActivityWithinBounds ==
    rc # "ABORT" =>
        \A r \in RowIds :
            (RowExists(r) /\ (row[r].validactivitybds \/ LinksInRange))
                => ActivityWithin(SCIProwGetActivityBounds(Heap, r), r)

\* the minimal activity of row r of heap h without the term of column c,
\* calculated from the bounds: the bound of term i that counts, whether it
\* is infinite, and the sum of the finite terms up to term i
MinBoundOf(h, r, i) ==
    IF h.row[r].vals[i] > 0 THEN h.col[h.row[r].cols[i]].lb ELSE -h.col[h.row[r].cols[i]].ub

MaxBoundOf(h, r, i) ==
    IF h.row[r].vals[i] > 0 THEN h.col[h.row[r].cols[i]].ub ELSE -h.col[h.row[r].cols[i]].lb

RECURSIVE MinSumWithout(_, _, _, _)
MinSumWithout(h, r, c, i) ==
    IF i = 0 THEN h.row[r].constant
    ELSE MinSumWithout(h, r, c, i - 1)
         + (IF h.row[r].cols[i] = c \/ SCIPsetIsInfinity(-MinBoundOf(h, r, i)) THEN 0
            ELSE Abs(h.row[r].vals[i]) * MinBoundOf(h, r, i))

RECURSIVE MaxSumWithout(_, _, _, _)
MaxSumWithout(h, r, c, i) ==
    IF i = 0 THEN h.row[r].constant
    ELSE MaxSumWithout(h, r, c, i - 1)
         + (IF h.row[r].cols[i] = c \/ SCIPsetIsInfinity(MaxBoundOf(h, r, i)) THEN 0
            ELSE Abs(h.row[r].vals[i]) * MaxBoundOf(h, r, i))

FullMinResidual(h, r, c) ==
    IF \E i \in 1..Len(h.row[r].cols) :
           h.row[r].cols[i] # c /\ SCIPsetIsInfinity(-MinBoundOf(h, r, i))
    THEN -SetInfinity
    ELSE MinSumWithout(h, r, c, Len(h.row[r].cols))

FullMaxResidual(h, r, c) ==
    IF \E i \in 1..Len(h.row[r].cols) :
           h.row[r].cols[i] # c /\ SCIPsetIsInfinity(MaxBoundOf(h, r, i))
    THEN SetInfinity
    ELSE MaxSumWithout(h, r, c, Len(h.row[r].cols))

\* the activity bounds of row r of heap h are what the bounds give: the
\* numbers of infinite contributions and the sums of the finite ones
CacheRight(h, r) ==
    /\ h.row[r].minactivityinf = MinInfTerms(h, r)
    /\ h.row[r].maxactivityinf = MaxInfTerms(h, r)
    /\ h.row[r].minactivity = MinFiniteSum(h, r, Len(h.row[r].cols))
    /\ h.row[r].maxactivity = MaxFiniteSum(h, r, Len(h.row[r].cols))

\* the residuals of row r of heap h for the term at position i are the
\* activity bounds of the row without that term
ResidualsRight(h, r, i) ==
    /\ MinResActivityOut(h, r, h.row[r].cols[i], h.row[r].vals[i])
           = FullMinResidual(h, r, h.row[r].cols[i])
    /\ MaxResActivityOut(h, r, h.row[r].cols[i], h.row[r].vals[i])
           = FullMaxResidual(h, r, h.row[r].cols[i])

\* C24: SCIProwGetActivityResiduals() for a term of a row returns the minimal
\* and maximal activity of the row without that term, whenever the activity
\* bounds of the row are what the bounds of the variables give: finite if the
\* term is the only infinite contribution, infinite if another term
\* contributes infinitely, else the finite part less coefficient times bound.
C24_ResidualIsActivityWithoutTerm ==
    rc # "ABORT" =>
        \A r \in RowIds :
            (RowExists(r) /\ (row[r].validactivitybds \/ LinksInRange)
                          /\ CacheRight(SCIProwGetActivityResiduals(Heap, r), r))
                => \A i \in 1..Len(row[r].cols) :
                       ResidualsRight(SCIProwGetActivityResiduals(Heap, r), r, i)

\* the residuals of a row with two terms were asked for, for a term that is the
\* only infinite contribution to the minimal activity: the residual is finite
C24_Witness ==
    /\ op.name = "SCIProwGetActivityResiduals"
    /\ rc = "OKAY"
    /\ Len(row[op.r].cols) = 2
    /\ row[op.r].validactivitybds
    /\ CacheRight(Heap, op.r)
    /\ row[op.r].minactivityinf = 1
    /\ \E i \in 1..2 :
           /\ row[op.r].cols[i] = op.c
           /\ MinActivityOut(Heap, op.r) = -SetInfinity
           /\ MinResActivityOut(Heap, op.r, op.c, row[op.r].vals[i]) > -SetInfinity

\* both caches of the row record rw are invalid
CachesInvalid(rw) ==
    /\ ~rw.validpsactivity
    /\ ~rw.validactivitybds
    /\ rw.minactivityinf = -1
    /\ rw.maxactivityinf = -1

\* C25: a step that adds a coefficient to a row, deletes one from it or
\* changes the value of one leaves the pseudo activity and the activity
\* bounds of the row invalid, with minactivityinf = maxactivityinf = -1.
C25_CoefChangeInvalidatesCaches ==
    [][\A r \in RowIds :
           (RowExists(r) /\ RowPairs(row', r) # RowPairs(row, r)) => CachesInvalid(row'[r])]_vars

\* a coefficient was deleted from a row with two terms that an activity
\* query had linked to its columns before: the caches of the row are invalid
C25_Witness ==
    /\ op.name = "SCIProwDelCoeff"
    /\ rc = "OKAY"
    /\ nops = 5
    /\ Len(row[op.r].cols) = 1
    /\ row[op.r].linkpos[1] >= 0
    /\ CachesInvalid(row[op.r])

\* the pseudo activity of row r of heap h calculated from the best bounds of
\* the variables: the constant and the first i terms, in the order of the row
RECURSIVE PseudoSum(_, _, _)
PseudoSum(h, r, i) ==
    IF i = 0 THEN h.row[r].constant
    ELSE RealAdd(PseudoSum(h, r, i - 1),
                 SCIPvarGetPseudoSol(h, h.row[r].cols[i]) * h.row[r].vals[i])

FullPseudoActivity(h, r) == PseudoSum(h, r, Len(h.row[r].cols))

\* the valid pseudo activities are what the best bounds give
PseudoRight(h) ==
    \A r \in RowIds :
        (h.row[r].nuses >= 1 /\ h.row[r].validpsactivity)
            => h.row[r].pseudoactivity = FullPseudoActivity(h, r)

\* the step changed the best bound of its column
BestBoundStep(name, c) ==
    \/ name = "ChgLb" /\ col[c].obj >= 0
    \/ name = "ChgUb" /\ col[c].obj < 0

\* the bound of column c that is its best bound, in the given columns
BestBoundOf(cl, c) == IF cl[c].obj >= 0 THEN cl[c].lb ELSE cl[c].ub

\* the coefficient of column c in row r
CoefOf(r, c) == row[r].vals[CHOOSE i \in 1..Len(row[r].cols) : row[r].cols[i] = c]

\* C26: when the best bound of a column changes, the valid pseudo activity of
\* every row that contains the column changes by the coefficient times the
\* difference of the new and the old bound; when the other bound changes, no
\* pseudo activity changes; and after every step each valid pseudo activity
\* is the value a calculation from the best bounds gives.
C26_PseudoActivityFollowsBestBound ==
    [][/\ PseudoRight(Heap')
       /\ (op'.name \in {"ChgLb", "ChgUb"} /\ rc' = "OKAY")
              => IF BestBoundStep(op'.name, op'.c)
                 THEN \A r \in RowIds :
                          (RowExists(r) /\ row[r].validpsactivity /\ InRow(r, op'.c))
                              => row'[r].pseudoactivity
                                     = RealAdd(row[r].pseudoactivity,
                                               CoefOf(r, op'.c)
                                                   * RealAdd(BestBoundOf(col', op'.c),
                                                             -BestBoundOf(col, op'.c)))
                 ELSE \A r \in RowIds : row'[r].pseudoactivity = row[r].pseudoactivity]_vars

(* ----------------- tightening by a linear constraint ------------------- *)

TightenOps == {"linconsTightenVarBounds", "linconsTightenBounds"}

\* C27: a call of linconsTightenVarBounds(), and so the loop of such calls,
\* leaves the bounds of every variable within the bounds before the call:
\* no lower bound decreases and no upper bound increases.
C27_TighteningNeverWidens ==
    [][(nops' = nops + 1 /\ op'.name \in TightenOps)
           => \A x \in VarIds : /\ cons'.var[x].lb >= cons.var[x].lb
                                /\ cons'.var[x].ub <= cons.var[x].ub]_vars

\* one call tightened both bounds of a variable
C27_Witness ==
    /\ op.name = "linconsTightenVarBounds"
    /\ cons.nchgbds = 2
    /\ cons.result = "REDUCEDDOM"
    /\ \E x \in VarIds : 0 < cons.var[x].lb /\ cons.var[x].ub < 8

\* the constraint as a call of linconsTightenVarBounds() finds it, with
\* valid activities
AtCall == linconsGetActivityResiduals(cons)

CallVar(v) == cons.vars[v + 1]

CallVal(v) == cons.vals[v + 1]

\* the candidate that the right hand side gives for position v: the new
\* upper bound for a positive coefficient, the new lower bound for a negative
HasRhsCand(v) ==
    /\ ~SCIPsetIsInfinity(-LinconsMinResActivity(AtCall, CallVar(v), CallVal(v)))
    /\ ~SCIPsetIsInfinity(cons.rhs)

RhsCand(v) ==
    RealDiv(cons.rhs - LinconsMinResActivity(AtCall, CallVar(v), CallVal(v)), CallVal(v))

\* the candidate that the left hand side gives for position v
HasLhsCand(v) ==
    /\ ~SCIPsetIsInfinity(LinconsMaxResActivity(AtCall, CallVar(v), CallVal(v)))
    /\ ~SCIPsetIsInfinity(-cons.lhs)

LhsCand(v) ==
    RealDiv(cons.lhs - LinconsMaxResActivity(AtCall, CallVar(v), CallVal(v)), CallVal(v))

\* the first candidate crosses the opposite bound of the variable
RhsCandCrosses(v) ==
    /\ HasRhsCand(v)
    /\ IF CallVal(v) > 0 THEN RhsCand(v) < cons.var[CallVar(v)].lb
       ELSE RhsCand(v) > cons.var[CallVar(v)].ub

\* the bounds of the variable once the first candidate was applied if tighter
UbAfterRhs(v) ==
    IF HasRhsCand(v) /\ CallVal(v) > 0 /\ RhsCand(v) < cons.var[CallVar(v)].ub
    THEN RhsCand(v) ELSE cons.var[CallVar(v)].ub

LbAfterRhs(v) ==
    IF HasRhsCand(v) /\ CallVal(v) < 0 /\ RhsCand(v) > cons.var[CallVar(v)].lb
    THEN RhsCand(v) ELSE cons.var[CallVar(v)].lb

\* the first candidate does not cross, the second one does
LhsCandCrosses(v) ==
    /\ ~RhsCandCrosses(v)
    /\ HasLhsCand(v)
    /\ IF CallVal(v) > 0 THEN LhsCand(v) > UbAfterRhs(v) ELSE LhsCand(v) < LbAfterRhs(v)

\* C28: if a candidate bound of a call of linconsTightenVarBounds() crosses
\* the opposite bound of the variable, the call ends with SCIP_CUTOFF, the
\* candidate is not applied and nothing is changed after it (a first
\* candidate that crosses leaves all bounds as they were, a second one leaves
\* only what the first one changed); and the loop of linconsTightenBounds()
\* makes no call after a call that ended with SCIP_CUTOFF.
C28_CrossingCandidateCutsOff ==
    [][/\ (nops' = nops + 1 /\ op'.name = "linconsTightenVarBounds" /\ RhsCandCrosses(op'.c))
              => (cons'.result = "CUTOFF" /\ cons'.var = cons.var /\ cons'.nchgbds = 0)
       /\ (nops' = nops + 1 /\ op'.name = "linconsTightenVarBounds" /\ LhsCandCrosses(op'.c))
              => /\ cons'.result = "CUTOFF"
                 /\ cons'.var = [cons.var EXCEPT ![CallVar(op'.c)].ub = UbAfterRhs(op'.c),
                                                 ![CallVar(op'.c)].lb = LbAfterRhs(op'.c)]
       /\ (nops' = nops + 1 /\ op'.name = "linconsTightenBounds")
              => /\ \A i \in 1..(Len(cons'.tried) - 1) : ~cons'.tried[i].cutoff
                 /\ cons'.result = "CUTOFF"
                        => (Len(cons'.tried) >= 1 /\ cons'.tried[Len(cons'.tried)].cutoff)]_vars

\* the constraint x <= 5 for a variable with bounds [10, 20]: the call
\* reports the cutoff and the bounds are still [10, 20]
C28_Witness ==
    /\ op.name = "linconsTightenVarBounds"
    /\ cons.vars = <<1>> /\ cons.vals = <<1>>
    /\ cons.rhs = 5
    /\ cons.var[1].lb = 10 /\ cons.var[1].ub = 20
    /\ cons.result = "CUTOFF"
    /\ cons.nchgbds = 0

\* the position of the last success among the first i calls of the loop, 0
\* if there was none: the value of lastsuccess after i calls
RECURSIVE LastSuccessOf(_, _)
LastSuccessOf(tr, i) ==
    IF i = 0 THEN 0
    ELSE IF tr[i].success THEN tr[i].v
    ELSE LastSuccessOf(tr, i - 1)

\* the calls of the loop went through the positions in a cycle from 0 on, the
\* loop went on while the next position was not the one of the last success,
\* and it ended when it was
LoopCycled(k) ==
    /\ Len(k.tried) >= 1
    /\ k.tried[1].v = 0
    /\ \A i \in 1..(Len(k.tried) - 1) :
           /\ k.tried[i + 1].v = NextPos(k, k.tried[i].v)
           /\ k.tried[i + 1].v # LastSuccessOf(k.tried, i)
    /\ NextPos(k, k.tried[Len(k.tried)].v) = LastSuccessOf(k.tried, Len(k.tried))

\* the bounds after a further call for position v
BoundsAfterCall(k, v) == linconsTightenVarBounds(consPropStart(k), v).var

\* no position of the constraint admits a further tightening
FixedPoint(k) == \A v \in 0..(Len(k.vars) - 1) : BoundsAfterCall(k, v) = k.var

\* C29: when the loop of linconsTightenBounds() has ended without a cutoff,
\* no term of the constraint admits a further tightening, and the loop has
\* gone through the terms in a cycle until the next position was the
\* position of the last success.
C29_LoopEndsAtFixedPoint ==
    (/\ op.name = "linconsTightenBounds"
     /\ ~cons.modifiable
     /\ Len(cons.vars) > 0
     /\ cons.result # "CUTOFF")
        => (FixedPoint(cons) /\ LoopCycled(cons))

(* --------------------- the unbounded LP solution ----------------------- *)

\* the objective value of the point stored in the columns of the LP solver
RECURSIVE StoredObjval(_)
StoredObjval(i) ==
    IF i = 0 THEN 0
    ELSE StoredObjval(i - 1) + col[lp.lpicols[i]].primsol * col[lp.lpicols[i]].obj

\* C30: after SCIPlpGetUnboundedSol() for a ray with negative objective
\* decrease rayobjval, the objective value of the feasible point plus
\* rayscale * rayobjval is at most -infinity, and so is the objective value
\* of the point stored in the columns.
C30_ScaledRayReachesMinusInfinity ==
    (op.name = "SCIPlpGetUnboundedSol" /\ rc = "OKAY")
        => /\ RayObjval(Heap, nlpicols(Heap)) < 0
           /\ lpi.objval + RayScale(RayObjval(Heap, nlpicols(Heap)))
                               * RayObjval(Heap, nlpicols(Heap)) <= -SetInfinity
           /\ StoredObjval(nlpicols(Heap)) <= -SetInfinity

\* the unbounded solution was stored for a ray with rayobjval = -4 and a
\* feasible point with the largest finite objective value
C30_Witness ==
    /\ op.name = "SCIPlpGetUnboundedSol"
    /\ rc = "OKAY"
    /\ RayObjval(Heap, nlpicols(Heap)) = -4
    /\ lpi.objval = SetInfinity - 1
    /\ lp.objval = -SetInfinity

(* --------------------------- the row lifetime -------------------------- *)

\* C31: a row that was freed is not in the LP solver (lpipos = -1, not in
\* the array of the rows in the LP solver) and not in the array of the
\* changed rows.
C31_FreedRowNotReferenced ==
    \A r \in RowIds :
        row[r].nuses = 0
            => /\ row[r].lpipos = -1
               /\ \A i \in 1..Len(lp.lpirows) : lp.lpirows[i] # r
               /\ \A i \in 1..Len(lp.chgrows) : lp.chgrows[i] # r

(* -------------------------- the linked entries ------------------------- *)

\* entry i of column c is unlinked, or its link position designates the
\* entry of the row that refers to the column, is linked to i and stores
\* the same value
ColEntryLinked(c, i) ==
    IF col[c].linkpos[i] = -1 THEN TRUE
    ELSE IF col[c].linkpos[i] < 0 \/ col[c].linkpos[i] >= Len(row[col[c].rows[i]].cols)
    THEN FALSE
    ELSE /\ row[col[c].rows[i]].cols[col[c].linkpos[i] + 1] = c
         /\ row[col[c].rows[i]].linkpos[col[c].linkpos[i] + 1] = i - 1
         /\ row[col[c].rows[i]].vals[col[c].linkpos[i] + 1] = col[c].vals[i]

RowEntryLinked(r, i) ==
    IF row[r].linkpos[i] = -1 THEN TRUE
    ELSE IF row[r].linkpos[i] < 0 \/ row[r].linkpos[i] >= Len(col[row[r].cols[i]].rows)
    THEN FALSE
    ELSE /\ col[row[r].cols[i]].rows[row[r].linkpos[i] + 1] = r
         /\ col[row[r].cols[i]].linkpos[row[r].linkpos[i] + 1] = i - 1
         /\ col[row[r].cols[i]].vals[row[r].linkpos[i] + 1] = row[r].vals[i]

\* C32: in every state, also after an operation that returned an error, the
\* linked entries of the columns and of the rows are mutually consistent.
C32_LinkedEntriesConsistent ==
    /\ \A c \in ColIds : \A i \in 1..Len(col[c].rows) : ColEntryLinked(c, i)
    /\ \A r \in RowIds : \A i \in 1..Len(row[r].cols) : RowEntryLinked(r, i)

(* ------------------------- the solution status ------------------------- *)

\* C33: in every state the solution status can be read: the LP is solved or
\* its status is NOTSOLVED, the assertion of SCIPlpGetSolstat().
C33_SolstatReadable == lp.solved \/ lp.lpsolstat = "NOTSOLVED"

(* ----------------------- the LP solver bookkeeping --------------------- *)

\* every column and row with lpipos >= 0 has lpipos below the number of
\* columns or rows in the LP solver and is held by the solver at that index
ResidentConsistent ==
    /\ \A c \in ColIds :
           col[c].lpipos >= 0
               => /\ col[c].lpipos < Len(lp.lpicols)
                  /\ lp.lpicols[col[c].lpipos + 1] = c
                  /\ col[c].lpipos < Len(lpi.cols)
                  /\ lpi.cols[col[c].lpipos + 1].name = c
    /\ \A r \in RowIds :
           row[r].lpipos >= 0
               => /\ row[r].lpipos < Len(lp.lpirows)
                  /\ lp.lpirows[row[r].lpipos + 1] = r
                  /\ row[r].lpipos < Len(lpi.rows)
                  /\ lpi.rows[row[r].lpipos + 1].name = r

\* C34: after a flush that returned an error the LP is unflushed and the
\* columns and rows with lpipos >= 0 are those the LP solver holds, at the
\* index lpipos.
C34_FailedFlushKeepsResidentConsistent ==
    (op.name = "lpFlush" /\ rc # "OKAY") => (~lp.flushed /\ ResidentConsistent)

(* ---------------------- the unchanged prefix boundary ------------------ *)

\* every LP position below the boundary lpifirstchgcol holds the column the
\* LP solver holds there, with no changed coefficient
ColPrefixUnchanged ==
    \A i \in 0..(lp.lpifirstchgcol - 1) :
        i < Len(lp.cols)
            => /\ i < Len(lp.lpicols)
               /\ lp.cols[i + 1] = lp.lpicols[i + 1]
               /\ col[lp.cols[i + 1]].lpipos = i
               /\ ~col[lp.cols[i + 1]].coefchanged

RowPrefixUnchanged ==
    \A i \in 0..(lp.lpifirstchgrow - 1) :
        i < Len(lp.rows)
            => /\ i < Len(lp.lpirows)
               /\ lp.rows[i + 1] = lp.lpirows[i + 1]
               /\ row[lp.rows[i + 1]].lpipos = i
               /\ ~row[lp.rows[i + 1]].coefchanged

\* after a successful flush the LP solver holds the columns and rows of the
\* LP in their order, none of them with a changed coefficient
FlushKeepsUnchangedOnly ==
    (op.name = "lpFlush" /\ rc = "OKAY")
        => /\ lp.lpicols = lp.cols /\ lp.lpirows = lp.rows
           /\ Len(lpi.cols) = Len(lp.cols) /\ Len(lpi.rows) = Len(lp.rows)
           /\ \A i \in 1..Len(lp.cols) :
                  /\ lpi.cols[i].name = lp.cols[i]
                  /\ col[lp.cols[i]].lpipos = i - 1
                  /\ ~col[lp.cols[i]].coefchanged
           /\ \A i \in 1..Len(lp.rows) :
                  /\ lpi.rows[i].name = lp.rows[i]
                  /\ row[lp.rows[i]].lpipos = i - 1
                  /\ ~row[lp.rows[i]].coefchanged

\* C35: in every state the columns and rows at the LP positions below
\* lpifirstchgcol and lpifirstchgrow are the ones the LP solver holds at
\* these positions and have no changed coefficient; so after a flush the LP
\* solver holds no changed and no removed column or row.
C35_PrefixUnchanged ==
    ColPrefixUnchanged /\ RowPrefixUnchanged /\ FlushKeepsUnchangedOnly

\* after a flush a coefficient of the second resident column was changed:
\* the boundary is 1 and the first column is below it
C35_Witness ==
    /\ Len(lp.cols) = 2
    /\ Len(lp.lpicols) = 2
    /\ lp.lpifirstchgcol = 1
    /\ col[lp.cols[2]].coefchanged
    /\ op.name = "SCIPcolChgCoeff"


\* the boundaries did not get smaller in the step
BoundaryNotLowered ==
    /\ lp'.lpifirstchgcol >= lp.lpifirstchgcol
    /\ lp'.lpifirstchgrow >= lp.lpifirstchgrow

\* the boundaries did not get larger in the step
BoundaryNotRaised ==
    /\ lp'.lpifirstchgcol <= lp.lpifirstchgcol
    /\ lp'.lpifirstchgrow <= lp.lpifirstchgrow

\* C36 as stated: between two flushes neither lpifirstchgrow nor
\* lpifirstchgcol ever decreases.
C36_BoundaryNeverDecreases ==
    [][(nops' = nops + 1 /\ op'.name # "lpFlush") => BoundaryNotLowered]_vars

\* C36: between two flushes neither lpifirstchgrow nor lpifirstchgcol ever
\* increases, whatever coefficient changes and shrink operations occur; a
\* flush never lowers them.
C36_BoundaryNeverIncreases ==
    [][nops' = nops + 1
          => IF op'.name = "lpFlush" THEN BoundaryNotLowered ELSE BoundaryNotRaised]_vars

\* the LP was shrunk to a size below the boundary and the boundary followed:
\* the LP solver still holds two columns and the boundary is 1
C36_Witness ==
    /\ op.name = "SCIPlpShrinkCols"
    /\ Len(lp.lpicols) = 2
    /\ Len(lp.cols) = 1
    /\ lp.lpifirstchgcol = 1

(* -------------------------- the size markers --------------------------- *)

\* C39: the markers of the new columns and rows stay within the LP, so that
\* the number of new columns and rows since the last mark is not negative.
C39_MarkersInRange ==
    /\ 0 <= lp.firstnewcol /\ lp.firstnewcol <= Len(lp.cols)
    /\ 0 <= lp.firstnewrow /\ lp.firstnewrow <= Len(lp.rows)
    /\ SCIPlpGetNumNewcols(Heap) >= 0
    /\ SCIPlpGetNumNewrows(Heap) >= 0

(* --------------- the calls of the positional delete routines ----------- *)

\* the assertion of colDelCoeffPos(): the entry is unlinked or the entry of
\* the row at the link position is the column; a link position at or behind
\* the end of the row vector reads a slot that is no entry, what it holds is
\* left open
ColRefersBack(h, c, pos) ==
    \/ h.col[c].linkpos[pos + 1] = -1
    \/ h.col[c].linkpos[pos + 1] >= Len(h.row[h.col[c].rows[pos + 1]].cols)
    \/ h.row[h.col[c].rows[pos + 1]].cols[h.col[c].linkpos[pos + 1] + 1] = c

\* the assertion of rowDelCoeffPos()
RowRefersBack(h, r, pos) ==
    \/ h.row[r].linkpos[pos + 1] = -1
    \/ h.row[r].linkpos[pos + 1] >= Len(h.col[h.row[r].cols[pos + 1]].rows)
    \/ h.col[h.row[r].cols[pos + 1]].rows[h.row[r].linkpos[pos + 1] + 1] = r

\* the second call of SCIPcolDelCoeff(), and of SCIPcolChgCoeff() and
\* SCIPcolIncCoeff() with a new value of zero: hs is the heap after the
\* search, pos the position found, colDelCoeffPos() is called after the
\* delete from the row
ColSecondCallOk(hs, c, r, pos) ==
    IF hs.col[c].linkpos[pos + 1] = -1 THEN ColRefersBack(hs, c, pos)
    ELSE IF Ok(rowDelCoeffPos(hs, r, hs.col[c].linkpos[pos + 1]))
    THEN ColRefersBack(rowDelCoeffPos(hs, r, hs.col[c].linkpos[pos + 1]), c, pos)
    ELSE TRUE

\* the calls of the positional delete routines by the delete of the
\* coefficient of row r from column c
ColDelCallsOk(h, c, r) ==
    IF colSearchPos(SCIPcolSort(h, c), c, r) = -1 THEN TRUE
    ELSE /\ SCIPcolSort(h, c).col[c].linkpos[colSearchPos(SCIPcolSort(h, c), c, r) + 1] # -1
               => RowRefersBack(SCIPcolSort(h, c), r,
                      SCIPcolSort(h, c).col[c].linkpos[colSearchPos(SCIPcolSort(h, c), c, r) + 1])
         /\ ColSecondCallOk(SCIPcolSort(h, c), c, r, colSearchPos(SCIPcolSort(h, c), c, r))

RowSecondCallOk(hs, r, c, pos) ==
    IF hs.row[r].linkpos[pos + 1] = -1 THEN RowRefersBack(hs, r, pos)
    ELSE IF Ok(colDelCoeffPos(hs, c, hs.row[r].linkpos[pos + 1]))
    THEN RowRefersBack(colDelCoeffPos(hs, c, hs.row[r].linkpos[pos + 1]), r, pos)
    ELSE TRUE

\* the calls of the positional delete routines by the delete of the
\* coefficient of column c from row r
RowDelCallsOk(h, r, c) ==
    IF rowSearchPos(SCIProwSort(h, r), r, c) = -1 THEN TRUE
    ELSE /\ SCIProwSort(h, r).row[r].linkpos[rowSearchPos(SCIProwSort(h, r), r, c) + 1] # -1
               => ColRefersBack(SCIProwSort(h, r), c,
                      SCIProwSort(h, r).row[r].linkpos[rowSearchPos(SCIProwSort(h, r), r, c) + 1])
         /\ RowSecondCallOk(SCIProwSort(h, r), r, c, rowSearchPos(SCIProwSort(h, r), r, c))

\* the calls of rowDelCoeffPos() in the loop of colUnlink() from entry i
RECURSIVE ColUnlinkCallsOk(_, _, _)
ColUnlinkCallsOk(h, c, i) ==
    IF ~Ok(h) \/ i >= Len(h.col[c].rows) THEN TRUE
    ELSE IF h.col[c].linkpos[i + 1] # -1
    THEN /\ RowRefersBack(h, h.col[c].rows[i + 1], h.col[c].linkpos[i + 1])
         /\ ColUnlinkCallsOk(
                colUnlinked(rowDelCoeffPos(h, h.col[c].rows[i + 1], h.col[c].linkpos[i + 1]), c, i),
                c, i + 1)
    ELSE ColUnlinkCallsOk(h, c, i + 1)

\* C37: on every call of colDelCoeffPos() and rowDelCoeffPos() made by the
\* delete of a coefficient, by a change or an increase to zero and by the
\* unlinking of a column, the entry to delete is unlinked or its link
\* position designates the entry of the opposite vector that refers back.
C37_DeleteCallsReferBack ==
    (LinksInRange /\ rc # "ABORT")
        => \A c \in ColIds :
               ColExists(c)
                   => /\ ColUnlinkCallsOk(Heap, c, 0)
                      /\ \A r \in RowIds :
                             RowExists(r)
                                 => ColDelCallsOk(Heap, c, r) /\ RowDelCallsOk(Heap, r, c)

RECURSIVE WidthUpTo(_, _)

\* the sum of the widths ub - lb of the domains of the variables 1..n
WidthUpTo(k, n) ==
    IF n = 0 THEN 0 ELSE WidthUpTo(k, n - 1) + (k.var[n].ub - k.var[n].lb)

Width(k) == WidthUpTo(k, NumVars)

\* the number of passes without success after which the loop in front of
\* the pass for position v ends: v = lastsuccess holds in front of the
\* first pass only
Remaining(k, v, lastsuccess) ==
    IF v = lastsuccess THEN Len(k.vars)
    ELSE (lastsuccess + Len(k.vars) - v) % Len(k.vars)

\* a pass with a tightened bound makes the domains smaller by one unit of
\* the Reals or more and leaves none of them empty; a pass without one
\* leaves the bounds alone and ends the loop or comes nearer to its end
PassMakesProgress ==
    IF cons'.nchgbds > cons.nchgbds
    THEN /\ Width(cons') < Width(cons)
         /\ \A x \in VarIds : cons'.var[x].lb <= cons'.var[x].ub
    ELSE /\ cons'.var = cons.var
         /\ op'.name = "do" => Remaining(cons', op'.c, op'.r) < Remaining(cons, op.c, op.r)

ConssOf(conss) == {conss[j] : j \in 1..Len(conss)}

LastSepaInRange ==
    0 <= hdlr.conshdlr.lastnsepaconss /\ hdlr.conshdlr.lastnsepaconss <= nsepaconss(hdlr)

LastEnfoInRange ==
    0 <= hdlr.conshdlr.lastnenfoconss /\ hdlr.conshdlr.lastnenfoconss <= nenfoconss(hdlr)

\* a separation call passes the constraints that were new before it
SepaPassesNew ==
    (nops' = nops + 1 /\ op'.name = "SCIPconshdlrSeparate")
        => hdlr.sepanew \subseteq ConssOf(hdlr'.conssepa.conss)

\* an enforcement call passes the constraints that were new before it
EnfoPassesNew ==
    (nops' = nops + 1 /\ op'.name = "SCIPconshdlrEnforceLPSol")
        => hdlr.enfonew \subseteq ConssOf(hdlr'.consenfo.conss)

\* C40: for every sequence of activations, deactivations, resets and
\* separation calls, 0 <= lastnsepaconss <= nsepaconss holds in every state
\* and a separation call passes to the callback every constraint with
\* separate that was activated since the last separation call or reset and
\* is still active; the same for enforcement.
C40_NewConssArePassed ==
    /\ [](LastSepaInRange /\ LastEnfoInRange)
    /\ [][SepaPassesNew /\ EnfoPassesNew]_vars

====
